---- MODULE Spec2Model ----
(***************************************************************************)
(* Threshold classification of the ROSEA slow-onset monitoring:           *)
(*   src/src/datasources/asap.py   hotspot classification                  *)
(*   src/src/datasources/ipc.py    IPC wide transform, decision tree,      *)
(*                                 latest-report selection                 *)
(*   src/src/utils.py              merge of the two alert tables           *)
(*   src/check_slow_onset.py       the monitoring run and its publication  *)
(*   src/src/asap/threshold_analyzer.py   monthly exposure aggregation     *)
(*   src/src/asap/alert_system.py, enhanced_alert_system.py                *)
(*                                 alert levels, current alerts            *)
(*   src/monitor_asap.py           latest hotspot records                  *)
(* Each pipeline stage is a pure function of a data frame.  A stage is     *)
(* checked under its own specification: Init draws the input frame from a  *)
(* bounded set and one action applies the stage to it.  The monitoring run *)
(* is a sequence of statements, each of which may raise.                   *)
(*                                                                         *)
(* Representation.  A data frame is a sequence of records (row order is    *)
(* the frame's row order).  Proportions are integers in per-mille          *)
(* (0.25 is 250), so that a percentage-point change is a tenth of a        *)
(* difference.  A missing value (NaN / None / pd.NA) of an integer column  *)
(* is NA; a missing string is "None".                                      *)
(***************************************************************************)
EXTENDS Integers, Sequences, FiniteSets, Bags

VARIABLES
    hs_raw,          \* classify_hotspots: the argument df
    hs_classified,   \* classify_hotspots: _df with consecutive_count, alert_level
    ipc_row,         \* classify_reports: one wide record of the frame
    ipc_rest,        \* classify_reports: the other wide records of the frame
    ipc_cat,         \* classify_reports: the record's "cat" (or the exception)
    ipc_alert,       \* classify_reports: the record's alert_level, alert_level_detail
    ipc_long,        \* _transform_wide: the period groups of the long frame
    ipc_wide,        \* _transform_wide: df_all_wide as returned
    ipc_classified,  \* process_latest_ipc: the argument df
    ipc_latest,      \* process_latest_ipc: the frame returned (or the exception)
    df_hs,           \* merge_ipc_hotspots: the argument df_hs
    df_ipc,          \* merge_ipc_hotspots: the argument df_ipc
    df_merged,       \* merge_ipc_hotspots: df_merged with max_alert_level
    force,           \* check_slow_onset: args.force
    df_clean,        \* check_slow_onset: the summary the run computes
    df_latest,       \* check_slow_onset: the persisted summary as loaded
    diff,            \* check_slow_onset: df_clean.compare(df_latest)
    blob,            \* the container: content of each monitoring blob
    blob_before,     \* the container as it was when the run started
    run_pc,          \* check_slow_onset: the statement the run has reached
    run_err,         \* check_slow_onset: the step that raised ("none" if none)
    warnings_raw,    \* ThresholdAnalyzer: the warnings frame as read
    warnings_data,   \* ThresholdAnalyzer.warnings_data after _process_warnings_data
    population_data, \* ThresholdAnalyzer.population_data
    monthly_exposure, \* ThresholdAnalyzer.monthly_exposure (or the exception)
    ipc_raw,         \* _combine_4_plus: the argument df
    ipc_combined,    \* _combine_4_plus: the frame returned
    alerts_data,     \* get_current_alerts / monitor_asap: the classified records with their dates
    current_alerts,   \* get_current_alerts / monitor_asap: the records selected
    merge_results,    \* merge_ipc_hotspots: the outcomes of successive calls on df_ipc, df_hs
    crop_exposure_pct,   \* generate_monthly_alerts: crop_pct_warning_1_plus of the row
    range_exposure_pct,  \* generate_monthly_alerts: range_pct_warning_1_plus of the row
    alert_results    \* the level each alert calculation returned

vars == << hs_raw, hs_classified, ipc_row, ipc_rest, ipc_cat, ipc_alert,
           ipc_long, ipc_wide, ipc_classified, ipc_latest,
           df_hs, df_ipc, df_merged,
           force, df_clean, df_latest, diff, blob, blob_before, run_pc, run_err,
           warnings_raw, warnings_data, population_data, monthly_exposure,
           ipc_raw, ipc_combined,
           alerts_data, current_alerts,
           merge_results,
           crop_exposure_pct, range_exposure_pct, alert_results >>

\* A stage that has not run yet has this in place of its result; once it has run
\* the result variable holds << result >>.
Pending == << >>

\* NaN / None / pd.NA in an integer column.
NA == -999

Max(a, b) == IF a >= b THEN a ELSE b

Abs(a) == IF a >= 0 THEN a ELSE -a

hsVars == << hs_raw, hs_classified >>
rowVars == << ipc_row, ipc_rest, ipc_cat, ipc_alert >>
wideVars == << ipc_long, ipc_wide >>
latestVars == << ipc_classified, ipc_latest >>
mergeVars == << df_hs, df_ipc, df_merged >>
runVars == << force, df_clean, df_latest, diff, blob, blob_before, run_pc, run_err >>

HsIdle == hs_raw = << >> /\ hs_classified = Pending
RowIdle == ipc_row = << >> /\ ipc_rest = {} /\ ipc_cat = Pending /\ ipc_alert = Pending
WideIdle == ipc_long = {} /\ ipc_wide = Pending
LatestIdle == ipc_classified = << >> /\ ipc_latest = Pending
MergeIdle == df_hs = << >> /\ df_ipc = << >> /\ df_merged = Pending
expVars == << warnings_raw, warnings_data, population_data, monthly_exposure >>
phaseVars == << ipc_raw, ipc_combined >>
RunIdle ==
    /\ force = FALSE /\ df_clean = << >> /\ df_latest = Pending /\ diff = Pending
    /\ blob = << >> /\ blob_before = << >> /\ run_pc = "idle" /\ run_err = "none"
ExpIdle ==
    /\ warnings_raw = {} /\ warnings_data = Pending
    /\ population_data = << >> /\ monthly_exposure = Pending
PhaseIdle == ipc_raw = {} /\ ipc_combined = Pending

curVars == << alerts_data, current_alerts >>
CurIdle == alerts_data = {} /\ current_alerts = Pending

callVars == << merge_results >>
CallIdle == merge_results = << >>

alertVars == << crop_exposure_pct, range_exposure_pct, alert_results >>
AlertIdle == crop_exposure_pct = NA /\ range_exposure_pct = NA /\ alert_results = << >>

(***************************************************************************)
(* Hotspots: src/src/datasources/asap.py                                   *)
(***************************************************************************)

\* Number of consecutive Hotspots to reach "High" level.
HIGH_CONSEC == 3

\* Longest hotspot frame drawn.
MaxHsRows == 4

\* The countries of a frame (asap0_id and asap0_name name the same country).
HsCountries == {"Kenya", "Uganda"}

\* hs_code: 0 no hotspot, 1 hotspot, 2 major hotspot; 3 stands for any other code.
HsCodes == {0, 1, 2, 3}

HsRows == [asap0_id : HsCountries, hs_code : HsCodes]

HsFrames == UNION {[1..n -> HsRows] : n \in 0..MaxHsRows}

\* (_df["hs_code"] != _df["hs_code"].shift()).cumsum() at row i: the shift is over
\* the whole frame, and the first row differs from the NaN shifted in.
HsRunId(df, i) ==
    Cardinality({j \in 1..i : j = 1 \/ df[j].hs_code # df[j - 1].hs_code})

\* Mutant: the run is not grouped by country.
HsSameGroupNoCountry(df, i, j) ==
    HsRunId(df, i) = HsRunId(df, j)

\* groupby(["asap0_id", run id]): rows i and j fall in the same group.
HsSameGroup(df, i, j) ==
    df[i].asap0_id = df[j].asap0_id /\ HsRunId(df, i) = HsRunId(df, j)

\* Mutant: the count starts at 1 on the first record of a run.
HsConsecutiveCountFromOne(df, i) ==
    Cardinality({j \in 1..i : HsSameGroup(df, i, j)})

\* cumcount(): the number of earlier rows of the same group.
HsConsecutiveCount(df, i) ==
    Cardinality({j \in 1..(i - 1) : HsSameGroup(df, i, j)})

\* Mutant: the count that reaches "high" is off by one.
HsClassifyRowOffByOne(row) ==
    IF row.hs_code = 0 THEN "low"
    ELSE IF row.hs_code = 1 /\ row.consecutive_count <= HIGH_CONSEC THEN "medium"
    ELSE IF row.hs_code = 1 /\ row.consecutive_count > HIGH_CONSEC THEN "high"
    ELSE IF row.hs_code = 2 THEN "very high"
    ELSE "None"

\* asap._classify_row
HsClassifyRow(row) ==
    IF row.hs_code = 0 THEN "low"
    ELSE IF row.hs_code = 1 /\ row.consecutive_count < HIGH_CONSEC THEN "medium"
    ELSE IF row.hs_code = 1 /\ row.consecutive_count >= HIGH_CONSEC THEN "high"
    ELSE IF row.hs_code = 2 THEN "very high"
    ELSE "None"

\* Mutant: records whose level is undefined are dropped from the result.
classify_hotspots_dropna(df) ==
    LET full == [i \in 1..Len(df) |->
                    LET cc == HsConsecutiveCount(df, i)
                    IN  [country |-> df[i].asap0_id,
                         hs_code |-> df[i].hs_code,
                         consecutive_count |-> cc,
                         alert_level |-> HsClassifyRow([hs_code |-> df[i].hs_code,
                                                        consecutive_count |-> cc])]]
        Defined(r) == r.alert_level # "None"
    IN  SelectSeq(full, Defined)

\* classify_hotspots, before the final column selection (which keeps the rows and
\* their order and drops hs_code and consecutive_count).
classify_hotspots(df) ==
    [i \in 1..Len(df) |->
        LET cc == HsConsecutiveCount(df, i)
        IN  [country |-> df[i].asap0_id,
             hs_code |-> df[i].hs_code,
             consecutive_count |-> cc,
             alert_level |-> HsClassifyRow([hs_code |-> df[i].hs_code,
                                            consecutive_count |-> cc])]]

InitHs ==
    /\ hs_raw \in HsFrames
    /\ hs_classified = Pending
    /\ RowIdle /\ WideIdle /\ LatestIdle /\ MergeIdle /\ RunIdle /\ ExpIdle /\ PhaseIdle /\ CurIdle /\ CallIdle /\ AlertIdle

ClassifyHotspots ==
    /\ hs_classified = Pending
    /\ hs_classified' = << classify_hotspots(hs_raw) >>
    /\ UNCHANGED << hs_raw, rowVars, wideVars, latestVars, mergeVars, runVars, expVars, phaseVars, curVars, callVars, alertVars >>

NextHs == ClassifyHotspots

SpecHs == InitHs /\ [][NextHs]_vars

HsDone == hs_classified # Pending

\* The classified frame, once classify_hotspots has run.
HsOut == hs_classified[1]

\* get_hotspots sorts by (asap0_name, date): each country's rows are contiguous,
\* countries in name order, and a country's rows in date order.
HsSorted(df) ==
    \A i \in 1..Len(df), j \in 1..Len(df) :
        (i < j /\ df[i].asap0_id = "Uganda") => df[j].asap0_id = "Uganda"

\* C2: the alert level of every record is given by the decision table on
\* (hs_code, consecutive_count): 0 -> low, 2 -> very high, 1 -> medium below
\* three earlier records of the run and high from three on.
C2_HotspotDecisionTable ==
    HsDone =>
        \A i \in 1..Len(HsOut) :
            LET r == HsOut[i]
            IN  /\ r.hs_code = 0 => r.alert_level = "low"
                /\ r.hs_code = 2 => r.alert_level = "very high"
                /\ (r.hs_code = 1 /\ r.consecutive_count \in {0, 1, 2})
                        => r.alert_level = "medium"
                /\ (r.hs_code = 1 /\ r.consecutive_count \notin {0, 1, 2})
                        => r.alert_level = "high"

\* C2 witness: a fourth consecutive hotspot record has been classified high, after
\* three classified medium.
C2_Witness ==
    /\ HsDone
    /\ \E i \in 1..Len(HsOut) :
            /\ HsOut[i].hs_code = 1
            /\ HsOut[i].consecutive_count = 3
            /\ HsOut[i].alert_level = "high"
            /\ HsOut[i - 1].alert_level = "medium"

\* C3: in a frame sorted by (country, date) the counter is 0 on a country's first
\* record and after every change of hs_code, and the previous count plus one
\* otherwise; Kenya [1,1,1,1] gives medium, medium, medium, high.
C3_RunLengthPerCountry ==
    (HsDone /\ HsSorted(hs_raw)) =>
        /\ \A i \in 1..Len(HsOut) :
              HsOut[i].consecutive_count =
                  IF \/ i = 1
                     \/ hs_raw[i].asap0_id # hs_raw[i - 1].asap0_id
                     \/ hs_raw[i].hs_code # hs_raw[i - 1].hs_code
                  THEN 0
                  ELSE HsOut[i - 1].consecutive_count + 1
        /\ hs_raw = [i \in 1..4 |-> [asap0_id |-> "Kenya", hs_code |-> 1]]
              => [i \in 1..4 |-> HsOut[i].alert_level]
                    = << "medium", "medium", "medium", "high" >>

\* C3 witness: a sorted frame where Uganda starts with the code Kenya ended with,
\* after a run of two Kenya records.
C3_Witness ==
    /\ HsDone /\ HsSorted(hs_raw)
    /\ \E i \in 2..(Len(hs_raw) - 1) :
            /\ hs_raw[i - 1].asap0_id = "Kenya" /\ hs_raw[i].asap0_id = "Kenya"
            /\ hs_raw[i + 1].asap0_id = "Uganda"
            /\ hs_raw[i - 1].hs_code = 1 /\ hs_raw[i].hs_code = 1
            /\ hs_raw[i + 1].hs_code = 1
            /\ HsOut[i].consecutive_count = 1
            /\ HsOut[i + 1].consecutive_count = 0

\* The four alert levels.
HsAlertLevels == {"low", "medium", "high", "very high"}

\* C21: classify_hotspots returns one row per input record, in input order (the
\* whole history); a record whose hs_code is none of 0, 1, 2 is kept with an
\* undefined alert level, and every other record has one of the four levels.
C21_OneRowPerRecordInOrder ==
    HsDone =>
        /\ Len(HsOut) = Len(hs_raw)
        /\ \A i \in 1..Len(hs_raw) :
              /\ HsOut[i].country = hs_raw[i].asap0_id
              /\ HsOut[i].hs_code = hs_raw[i].hs_code
              /\ hs_raw[i].hs_code \notin {0, 1, 2} <=> HsOut[i].alert_level = "None"
              /\ hs_raw[i].hs_code \in {0, 1, 2} <=> HsOut[i].alert_level \in HsAlertLevels

\* C21 witness: a record with an unknown code lies between two records of the same
\* country and is returned in its place with an undefined level; the country has
\* more than one row in the result.
C21_Witness ==
    /\ HsDone
    /\ \E i \in 2..(Len(hs_raw) - 1) :
            /\ hs_raw[i].hs_code = 3
            /\ hs_raw[i - 1].asap0_id = hs_raw[i].asap0_id
            /\ hs_raw[i + 1].asap0_id = hs_raw[i].asap0_id
            /\ hs_raw[i - 1].hs_code = 1 /\ hs_raw[i + 1].hs_code = 2
            /\ Len(HsOut) = Len(hs_raw)
            /\ HsOut[i].alert_level = "None"
            /\ HsOut[i - 1].alert_level = "medium"
            /\ HsOut[i + 1].alert_level = "very high"

\* The number of records of the streak that ends at row i: consecutive rows of one
\* country with the hs_code of row i.
HsRunLength(df, i) ==
    Cardinality({j \in 1..i :
                    \A k \in j..i : /\ df[k].asap0_id = df[i].asap0_id
                                    /\ df[k].hs_code = df[i].hs_code})

HsOfCountry(df, c) ==
    LET Own(r) == r.asap0_id = c
    IN  SelectSeq(df, Own)

\* The classified records of country c, in their order.
HsOutOfCountry(c) ==
    LET Own(r) == r.country = c
    IN  SelectSeq(HsOut, Own)

VH_S_POP_4 == 500000

VH_D_PR_3 == 250

VH_D_IN_4 == 30

H_S_POP_4 == 200000

H_D_PR_3 == 250

H_D_IN_3 == 50

M_PR_3 == 180

M_POP_4 == 50000

\* Python truth values of the comparisons: "T", "F", and "NA" for pd.NA, whose
\* truth value is ambiguous (bool(pd.NA) raises TypeError).
\* x >= t on a float (proportion_3+): a NaN compares False.
FloatGe(x, t) == IF x = NA THEN "F" ELSE IF x >= t THEN "T" ELSE "F"

\* x >= t on a value of an Int64 column: pd.NA compares to pd.NA.
IntGe(x, t) == IF x = NA THEN "NA" ELSE IF x >= t THEN "T" ELSE "F"

\* D >= inc * 100 on a point change D (Int64, in points) and an increase inc given
\* in per-mille: inc * 100 is inc / 10 points.
PtChangeGe(D, inc) == IF D = NA THEN "NA" ELSE IF D * 1000 >= inc * 100 THEN "T" ELSE "F"

\* Mutant: the pd.notna guard is dropped.
PdNotnaDropped(x) == "T"

\* pd.notna(x)
PdNotna(x) == IF x = NA THEN "F" ELSE "T"

\* a and b: b is returned when a is true, a when it is false; the truth value of
\* a is taken first and raises when a is pd.NA.
PyAnd(a, b) ==
    IF a \in {"NA", "TypeError"} THEN "TypeError" ELSE IF a = "F" THEN "F" ELSE b

\* a or b
PyOr(a, b) ==
    IF a \in {"NA", "TypeError"} THEN "TypeError" ELSE IF a = "T" THEN "T" ELSE b

\* The truth value an if/elif takes of its condition.
PyBool(a) == IF a \in {"NA", "TypeError"} THEN "TypeError" ELSE a

\* if c1: l1 elif c2: l2 ... return last, over a sequence of <<condition, label>>:
\* a condition whose truth value raises ends the chain with the exception.
RECURSIVE PyIfChain(_, _)
PyIfChain(branches, last) ==
    IF branches = << >> THEN last
    ELSE LET c == PyBool(Head(branches)[1])
         IN  IF c = "TypeError" THEN "TypeError"
             ELSE IF c = "T" THEN Head(branches)[2]
             ELSE PyIfChain(Tail(branches), last)

\* Mutant: the high criteria are tested before the very high ones.
IpcClassifyRowHighFirst(row) ==
    LET P3 == row.proportion_3
        PP4 == row.population_4
        D3 == row.pt_change_3
        D4 == row.pt_change_4
        very_high_severe == IntGe(PP4, VH_S_POP_4)
        very_high_deteriorating ==
            PyAnd(FloatGe(P3, VH_D_PR_3),
                  PyAnd(PdNotna(D4), PtChangeGe(D4, VH_D_IN_4)))
        high_severe == IntGe(PP4, H_S_POP_4)
        high_deteriorating ==
            PyAnd(FloatGe(P3, H_D_PR_3),
                  PyAnd(PdNotna(D3), PtChangeGe(D3, H_D_IN_3)))
        medium == PyOr(FloatGe(P3, M_PR_3), IntGe(PP4, M_POP_4))
    IN  PyIfChain(
            << << PyAnd(high_severe, high_deteriorating), "high - all criteria" >>,
               << high_severe, "high - emergency" >>,
               << high_deteriorating, "high - deteriorating" >>,
               << PyAnd(very_high_severe, very_high_deteriorating),
                  "very high - all criteria" >>,
               << very_high_severe, "very high - emergency" >>,
               << very_high_deteriorating, "very high - deteriorating" >>,
               << medium, "medium" >> >>,
            "low")

\* ipc._classify_row
IpcClassifyRow(row) ==
    LET P3 == row.proportion_3
        PP4 == row.population_4
        D3 == row.pt_change_3
        D4 == row.pt_change_4
        very_high_severe == IntGe(PP4, VH_S_POP_4)
        very_high_deteriorating ==
            PyAnd(FloatGe(P3, VH_D_PR_3),
                  PyAnd(PdNotna(D4), PtChangeGe(D4, VH_D_IN_4)))
        high_severe == IntGe(PP4, H_S_POP_4)
        high_deteriorating ==
            PyAnd(FloatGe(P3, H_D_PR_3),
                  PyAnd(PdNotna(D3), PtChangeGe(D3, H_D_IN_3)))
        medium == PyOr(FloatGe(P3, M_PR_3), IntGe(PP4, M_POP_4))
    IN  PyIfChain(
            << << PyAnd(very_high_severe, very_high_deteriorating),
                  "very high - all criteria" >>,
               << very_high_severe, "very high - emergency" >>,
               << very_high_deteriorating, "very high - deteriorating" >>,
               << PyAnd(high_severe, high_deteriorating), "high - all criteria" >>,
               << high_severe, "high - emergency" >>,
               << high_deteriorating, "high - deteriorating" >>,
               << medium, "medium" >> >>,
            "low")

\* cat.str.split(" - "): the parts of a label.
SplitCat(cat) ==
    CASE cat = "very high - all criteria" -> << "very high", "all criteria" >>
      [] cat = "very high - emergency" -> << "very high", "emergency" >>
      [] cat = "very high - deteriorating" -> << "very high", "deteriorating" >>
      [] cat = "high - all criteria" -> << "high", "all criteria" >>
      [] cat = "high - emergency" -> << "high", "emergency" >>
      [] cat = "high - deteriorating" -> << "high", "deteriorating" >>
      [] OTHER -> << cat >>

\* classify_reports from the apply on, seen from one record `row` of a frame whose
\* other records are `rest`: str.split(expand=True) makes as many columns as the
\* longest split of the frame, a shorter split is padded with None, and
\* split_categories[1] raises KeyError when no label of the frame has a detail.
classify_reports(row, rest) ==
    LET cat == IpcClassifyRow(row)
        cats == {cat} \cup {IpcClassifyRow(r) : r \in rest}
    IN  IF "TypeError" \in cats
        THEN [err |-> "TypeError", alert_level |-> "None", alert_level_detail |-> "None"]
        ELSE IF \A c \in cats : Len(SplitCat(c)) < 2
        THEN [err |-> "KeyError", alert_level |-> "None", alert_level_detail |-> "None"]
        ELSE [err |-> "none",
              alert_level |-> SplitCat(cat)[1],
              alert_level_detail |->
                  IF Len(SplitCat(cat)) < 2 THEN "None" ELSE SplitCat(cat)[2]]

\* The wide records drawn: values on both sides of every threshold.  population_4+
\* is never missing (it is the sum _combine_4_plus makes); a proportion can be NaN
\* and a point change is missing when the populations are not comparable.
IpcProportions == {NA, 170, 180, 200, 240, 250, 300}

IpcPopulations == {10000, 49999, 50000, 199999, 200000, 499999, 500000, 600000}

IpcPtChanges3 == {NA, -5, 0, 4, 5, 6}

IpcPtChanges4 == {NA, 0, 2, 3, 5}

IpcWideRows ==
    [proportion_3 : IpcProportions, population_4 : IpcPopulations,
     pt_change_3 : IpcPtChanges3, pt_change_4 : IpcPtChanges4]

\* The other records a frame may hold: one that is "low" and one that is
\* "very high - emergency".
IpcRestRows ==
    { [proportion_3 |-> 100, population_4 |-> 1000, pt_change_3 |-> NA, pt_change_4 |-> NA],
      [proportion_3 |-> 100, population_4 |-> 700000, pt_change_3 |-> 0, pt_change_4 |-> 0] }

InitRow ==
    /\ ipc_row \in {<< r >> : r \in IpcWideRows}
    /\ ipc_rest \in SUBSET IpcRestRows
    /\ ipc_cat = Pending
    /\ ipc_alert = Pending
    /\ HsIdle /\ WideIdle /\ LatestIdle /\ MergeIdle /\ RunIdle /\ ExpIdle /\ PhaseIdle /\ CurIdle /\ CallIdle /\ AlertIdle

ClassifyReports ==
    /\ ipc_alert = Pending
    /\ ipc_cat' = << IpcClassifyRow(ipc_row[1]) >>
    /\ ipc_alert' = << classify_reports(ipc_row[1], ipc_rest) >>
    /\ UNCHANGED << ipc_row, ipc_rest, hsVars, wideVars, latestVars, mergeVars, runVars, expVars, phaseVars, curVars, callVars, alertVars >>

NextRow == ClassifyReports

SpecRow == InitRow /\ [][NextRow]_vars

RowDone == ipc_alert # Pending

\* The criteria of the decision tree on a wide record.
CritVHS(r) == r.population_4 >= 500000

CritVHD(r) ==
    r.proportion_3 # NA /\ r.proportion_3 >= 250 /\ r.pt_change_4 # NA /\ r.pt_change_4 >= 3

CritHS(r) == r.population_4 >= 200000

CritHD(r) ==
    r.proportion_3 # NA /\ r.proportion_3 >= 250 /\ r.pt_change_3 # NA /\ r.pt_change_3 >= 5

CritM(r) == (r.proportion_3 # NA /\ r.proportion_3 >= 180) \/ r.population_4 >= 50000

\* The labels in priority order, each with its criterion.
PriorityTable(r) ==
    << << CritVHS(r) /\ CritVHD(r), "very high - all criteria" >>,
       << CritVHS(r), "very high - emergency" >>,
       << CritVHD(r), "very high - deteriorating" >>,
       << CritHS(r) /\ CritHD(r), "high - all criteria" >>,
       << CritHS(r), "high - emergency" >>,
       << CritHD(r), "high - deteriorating" >>,
       << CritM(r), "medium" >>,
       << TRUE, "low" >> >>

\* C1: the label of every wide record is the first one of the priority table whose
\* criterion the record meets; a record meeting a very high criterion is never
\* labelled high; (0.30, 600000, pt_change_4+ 5) is "very high - all criteria".
C1_FirstMatchInPriorityOrder ==
    RowDone =>
        LET r == ipc_row[1]
            t == PriorityTable(r)
            k == CHOOSE i \in 1..8 : t[i][1] /\ \A j \in 1..(i - 1) : ~t[j][1]
        IN  /\ ipc_cat[1] = t[k][2]
            /\ (CritVHS(r) \/ CritVHD(r)) =>
                    ipc_cat[1] \notin {"high - all criteria", "high - emergency",
                                       "high - deteriorating"}
            /\ (r.proportion_3 = 300 /\ r.population_4 = 600000 /\ r.pt_change_4 = 5)
                    => ipc_cat[1] = "very high - all criteria"

\* C1 witness: a record meeting a very high and both high criteria has been given a
\* very high label.
C1_Witness ==
    /\ RowDone
    /\ CritVHD(ipc_row[1]) /\ ~CritVHS(ipc_row[1])
    /\ CritHS(ipc_row[1]) /\ CritHD(ipc_row[1])
    /\ ipc_cat[1] = "very high - deteriorating"

\* C7: a record whose point changes are both missing is classified without an
\* exception of _classify_row, its label is one of the four that need no point
\* change and is decided by population_4+ and proportion_3+ alone; where
\* classify_reports returns, (0.20, 10000, missing) is medium with no detail.
C7_NullPtChangeStillClassified ==
    (RowDone /\ ipc_row[1].pt_change_3 = NA /\ ipc_row[1].pt_change_4 = NA) =>
        LET r == ipc_row[1]
        IN  /\ ipc_cat[1] # "TypeError"
            /\ ipc_cat[1] =
                  IF r.population_4 >= 500000 THEN "very high - emergency"
                  ELSE IF r.population_4 >= 200000 THEN "high - emergency"
                  ELSE IF (r.proportion_3 # NA /\ r.proportion_3 >= 180)
                           \/ r.population_4 >= 50000 THEN "medium"
                  ELSE "low"
            /\ ipc_alert[1].err # "TypeError"
            /\ (ipc_alert[1].err = "none" /\ r.proportion_3 = 200 /\ r.population_4 = 10000)
                    => (ipc_alert[1].alert_level = "medium"
                        /\ ipc_alert[1].alert_level_detail = "None")

\* C7 witness: a record with missing point changes and proportion_3+ of 0.30, which
\* a point change could have made deteriorating, has come out medium with no detail.
C7_Witness ==
    /\ RowDone
    /\ ipc_row[1].pt_change_3 = NA /\ ipc_row[1].pt_change_4 = NA
    /\ ipc_row[1].proportion_3 = 300 /\ ipc_row[1].population_4 = 10000
    /\ ipc_alert[1].err = "none"
    /\ ipc_alert[1].alert_level = "medium"
    /\ ipc_alert[1].alert_level_detail = "None"

\* C22: classify_reports returns for every non-empty input, also one in which no
\* record is high or very high; every record has one of the four alert levels, and
\* a detail (emergency, deteriorating, all criteria) exactly when the level is high
\* or very high.
C22_LevelAndDetailForEveryInput ==
    RowDone =>
        /\ ipc_alert[1].err = "none"
        /\ ipc_alert[1].alert_level \in {"low", "medium", "high", "very high"}
        /\ ipc_alert[1].alert_level \in {"high", "very high"}
              <=> ipc_alert[1].alert_level_detail
                      \in {"emergency", "deteriorating", "all criteria"}
        /\ ipc_alert[1].alert_level \in {"low", "medium"}
              <=> ipc_alert[1].alert_level_detail = "None"

(***************************************************************************)
(* IPC wide transform: src/src/datasources/ipc.py, _transform_wide         *)
(***************************************************************************)

\* We only calculate population differences when they are within 10% of each
\* other (0.1, in per-mille).
POP_THRESH == 100

\* Most reporting periods drawn for the first location.
MaxPeriods == 2

\* location_code values, in sort order.
IpcLocations == << "KEN", "UGA" >>

LocRank(l) == CHOOSE k \in 1..Len(IpcLocations) : IpcLocations[k] = l

\* ipc_type values of the frames drawn, in sort order.
WideTypes == << "current", "first projection" >>

WideTypeRank(t) == CHOOSE k \in 1..Len(WideTypes) : WideTypes[k] = t

\* The phases _transform_wide keeps and spreads into columns.
WidePhases == {"3+", "4+", "5"}

\* The (location, ipc_type, population_analyzed, From, To, year) groups of the long
\* frame, each with the phases it has rows for (`phases`), those of them it has two
\* rows for (`twice`), and the fractions of its "3+" and "4+" rows.  Exactly 10% up and down from 1,000,000, and 15% up, are among the
\* population changes; the fractions give changes of 4.6, 5.5 and 0.9 points.
KenValues ==
    [population_analyzed : {900000, 1000000, 1100000, 1150000},
     fraction_3 : {200, 246, 255}, fraction_4 : {50, 84}]

\* A projection of the first location; its period can start with that of a current
\* record of the location.
KenProjections ==
    [location_code : {"KEN"}, ipc_type : {"first projection"}, From : {1, 2},
     population_analyzed : {1000000},
     fraction_3 : {300}, fraction_4 : {84},
     phases : {WidePhases}, twice : {{}}]

UgaGroups ==
    [location_code : {"UGA"}, ipc_type : {"current"}, From : {1},
     population_analyzed : {1000000},
     fraction_3 : {200, 300}, fraction_4 : {50},
     phases : {WidePhases, {"3+", "4+"}}, twice : {{}, {"4+"}}]

\* The long frames with at most `most` periods of current records: the first
\* location has current records for periods 1..n and at most one projection, the
\* second location at most one record.
IpcLongFrames(most) ==
    { { [location_code |-> "KEN", ipc_type |-> "current", From |-> i,
         population_analyzed |-> v[i].population_analyzed,
         fraction_3 |-> v[i].fraction_3, fraction_4 |-> v[i].fraction_4,
         phases |-> WidePhases, twice |-> {}] : i \in DOMAIN v } \cup proj \cup uga :
        v \in UNION {[1..n -> KenValues] : n \in 0..most},
        proj \in {{}} \cup {{q} : q \in KenProjections},
        uga \in {{}} \cup {{u} : u \in UgaGroups} }

\* g comes before h in sort_values(["location_code", "From"]) of the pivoted frame.
\* The sort on two columns is stable and the pivot leaves the rows in index order
\* (location_code, ipc_type, ...), so rows of a location that share a period_start
\* stay in ipc_type order.
GroupBefore(g, h) ==
    \/ LocRank(g.location_code) < LocRank(h.location_code)
    \/ (g.location_code = h.location_code /\ g.From < h.From)
    \/ /\ g.location_code = h.location_code /\ g.From = h.From
       /\ WideTypeRank(g.ipc_type) < WideTypeRank(h.ipc_type)

\* pivot(...).reset_index().sort_values(["location_code", "From"]): one row per
\* group, in (location_code, From) order.
RECURSIVE SortGroups(_)
SortGroups(S) ==
    IF S = {} THEN << >>
    ELSE LET first == CHOOSE g \in S : \A h \in S \ {g} : GroupBefore(g, h)
         IN  << first >> \o SortGroups(S \ {first})

\* Mutant: shift() and diff() over the whole frame, not per location.
PrevRowAnyLocation(w, i) == i - 1

\* groupby("location_code").shift() / .diff(): the row before row i among the rows
\* of its location, 0 when there is none.
PrevRow(w, i) ==
    LET before == {j \in 1..(i - 1) : w[j].location_code = w[i].location_code}
    IN  IF before = {} THEN 0 ELSE CHOOSE j \in before : \A k \in before : k <= j

\* Mutant: the populations must differ by less than the threshold.
PopComparableStrict(cur, prev) ==
    /\ prev # NA /\ prev # 0
    /\ Abs(cur - prev) * 1000 < POP_THRESH * prev

\* abs(diff) / shift <= POP_THRESH.  A first row compares NaN, a previous
\* population of 0 compares inf or NaN: both are False.  The quotient of the two
\* integers is correctly rounded, so a change of exactly 10% gives the double 0.1.
PopComparable(cur, prev) ==
    /\ prev # NA /\ prev # 0
    /\ Abs(cur - prev) * 1000 <= POP_THRESH * prev

\* The integers round() can make of d / 10 (a difference of d per-mille is d / 10
\* points): the nearest one; at an exact half the binary representation of the
\* fractions decides between the two neighbours.
RoundPoints(d) ==
    IF d % 10 < 5 THEN {d \div 10}
    ELSE IF d % 10 > 5 THEN {(d \div 10) + 1}
    ELSE {d \div 10, (d \div 10) + 1}

\* Mutant: the fillna(0) of the lines commented out at the end of _transform_wide.
NullWhereNotComparableFillZero(comparable, v) == IF comparable THEN v ELSE 0

\* df_all_wide.loc[~pop_comparable, [pt_change_3+, pt_change_4+]] = None
NullWhereNotComparable(comparable, v) == IF comparable THEN v ELSE NA

\* The rows _transform_wide can make of row i of the sorted groups w: the
\* comparability flag, and the point changes rounded and set to missing where the
\* populations are not comparable.
WideRowsAt(w, i) ==
    LET prev == PrevRow(w, i)
        prevPop == IF prev = 0 THEN NA ELSE w[prev].population_analyzed
        comparable == PopComparable(w[i].population_analyzed, prevPop)
        pts3 == IF prev = 0 THEN {NA}
                ELSE RoundPoints(w[i].fraction_3 - w[prev].fraction_3)
        pts4 == IF prev = 0 THEN {NA}
                ELSE RoundPoints(w[i].fraction_4 - w[prev].fraction_4)
    IN  { [location_code |-> w[i].location_code,
           ipc_type |-> w[i].ipc_type,
           From |-> w[i].From,
           population_analyzed |-> w[i].population_analyzed,
           proportion_3 |-> w[i].fraction_3,
           proportion_4 |-> w[i].fraction_4,
           pop_comparable |-> comparable,
           pt_change_3 |-> NullWhereNotComparable(comparable, p3),
           pt_change_4 |-> NullWhereNotComparable(comparable, p4)] :
          p3 \in pts3, p4 \in pts4 }

\* The frames _transform_wide can return for the sorted groups w: rows 1..n.
RECURSIVE WideFramesUpTo(_, _)
WideFramesUpTo(w, n) ==
    IF n = 0 THEN {<< >>}
    ELSE {Append(f, r) : f \in WideFramesUpTo(w, n - 1), r \in WideRowsAt(w, n)}

WideFrames(w) == WideFramesUpTo(w, Len(w))

\* len(_df): the rows of the long frame with a phase in WidePhases.
LongLen(S) ==
    LET RECURSIVE Sum(_)
        Sum(T) == IF T = {} THEN 0
                  ELSE LET g == CHOOSE x \in T : TRUE
                       IN  Cardinality(g.phases) + Cardinality(g.twice) + Sum(T \ {g})
    IN  Sum(S)

InitWide ==
    /\ ipc_long \in IpcLongFrames(MaxPeriods)
    /\ ipc_wide = Pending
    /\ HsIdle /\ RowIdle /\ LatestIdle /\ MergeIdle /\ RunIdle /\ ExpIdle /\ PhaseIdle /\ CurIdle /\ CallIdle /\ AlertIdle

\* Mutant: the reshape aggregates duplicate rows instead of raising.
PivotReshapesAlways(S) == TRUE

\* _df.pivot(index=index_cols, columns="ipc_phase", ...) can reshape the frame: no
\* group has two rows of one phase.
PivotReshapes(S) == \A g \in S : g.twice = {}

\* _transform_wide returns df_all_wide.
TransformWide ==
    /\ ipc_wide = Pending
    /\ PivotReshapes(ipc_long)
    /\ 3 * Cardinality(ipc_long) = LongLen(ipc_long)
    /\ \E f \in WideFrames(SortGroups(ipc_long)) :
            ipc_wide' = << [err |-> "none", df |-> f] >>
    /\ UNCHANGED << ipc_long, hsVars, rowVars, latestVars, mergeVars, runVars, expVars, phaseVars, curVars, callVars, alertVars >>

\* assert len(df_all_wide) == (len(_df) / 3) fails.
TransformWideAssertFails ==
    /\ ipc_wide = Pending
    /\ PivotReshapes(ipc_long)
    /\ 3 * Cardinality(ipc_long) # LongLen(ipc_long)
    /\ ipc_wide' = << [err |-> "AssertionError", df |-> << >>] >>
    /\ UNCHANGED << ipc_long, hsVars, rowVars, latestVars, mergeVars, runVars, expVars, phaseVars, curVars, callVars, alertVars >>

\* pivot raises ValueError (the index contains duplicate entries), before the
\* assertion is reached.
TransformWidePivotRaises ==
    /\ ipc_wide = Pending
    /\ ~PivotReshapes(ipc_long)
    /\ ipc_wide' = << [err |-> "ValueError", df |-> << >>] >>
    /\ UNCHANGED << ipc_long, hsVars, rowVars, latestVars, mergeVars, runVars, expVars, phaseVars, curVars, callVars, alertVars >>

NextWide == TransformWide \/ TransformWideAssertFails \/ TransformWidePivotRaises

SpecWide == InitWide /\ [][NextWide]_vars

WideDone == ipc_wide # Pending /\ ipc_wide[1].err = "none"

\* The wide frame returned.
WideOut == ipc_wide[1].df

\* The group of the long frame that precedes wide row r: the last one of the same
\* location that comes before it in (location_code, period_start) order.
Preceding(r) ==
    { g \in ipc_long :
        /\ g.location_code = r.location_code /\ GroupBefore(g, r)
        /\ \A h \in ipc_long :
              (h.location_code = r.location_code /\ GroupBefore(h, r))
                  => (h = g \/ GroupBefore(h, g)) }

\* C5 as claimed: pt_change_3+ is missing when pop_comparable is false and is
\* otherwise exactly 100 * (the difference of proportion_3+), unrounded.
C5_PtChangeExact ==
    WideDone =>
        \A i \in 1..Len(WideOut) :
            LET r == WideOut[i]
            IN  IF ~r.pop_comparable THEN r.pt_change_3 = NA
                ELSE /\ r.pt_change_3 # NA
                     /\ \A g \in Preceding(r) :
                            r.pt_change_3 * 10 = r.proportion_3 - g.fraction_3

\* C5 as amended: pt_change_3+ is missing (never 0 in its place) when
\* pop_comparable is false and is otherwise 100 * (the difference of proportion_3+
\* to the preceding record of the location) rounded to an integer: within half a
\* point of the exact change.
C5_PtChangeRounded ==
    WideDone =>
        \A i \in 1..Len(WideOut) :
            LET r == WideOut[i]
            IN  IF ~r.pop_comparable THEN r.pt_change_3 = NA
                ELSE /\ r.pt_change_3 # NA
                     /\ Preceding(r) # {}
                     /\ \A g \in Preceding(r) :
                            Abs(r.pt_change_3 * 10 - (r.proportion_3 - g.fraction_3)) <= 5

\* C5 witness: a comparable record whose proportion_3+ rose by 4.6 points carries a
\* pt_change_3+ of 5.
C5_Witness ==
    /\ WideDone
    /\ \E i \in 1..Len(WideOut) :
            /\ WideOut[i].pop_comparable
            /\ \E g \in Preceding(WideOut[i]) :
                    WideOut[i].proportion_3 - g.fraction_3 = 46
            /\ WideOut[i].pt_change_3 = 5

\* C6: pop_comparable is true exactly when the record has a preceding record of
\* its location and the population analysed changed by at most 10% of the
\* preceding one; exactly 10% up or down is comparable; 1,000,000 to 1,150,000 is
\* not; a record that is not comparable has both point changes missing.
C6_PopComparableWithinTenPercent ==
    WideDone =>
        \A i \in 1..Len(WideOut) :
            LET r == WideOut[i]
            IN  /\ r.pop_comparable <=>
                      \E g \in Preceding(r) :
                          10 * Abs(r.population_analyzed - g.population_analyzed)
                              <= g.population_analyzed
                /\ \A g \in Preceding(r) :
                      /\ (g.population_analyzed = 1000000
                            /\ r.population_analyzed \in {900000, 1100000})
                                => r.pop_comparable
                      /\ (g.population_analyzed = 1000000
                            /\ r.population_analyzed = 1150000)
                                => ~r.pop_comparable
                /\ ~r.pop_comparable => (r.pt_change_3 = NA /\ r.pt_change_4 = NA)

\* C6 witness: a record after a fall of exactly 10% is comparable and carries its
\* point changes.
C6_Witness ==
    /\ WideDone
    /\ \E i \in 1..Len(WideOut) :
          \E g \in Preceding(WideOut[i]) :
            /\ g.population_analyzed = 1000000
            /\ WideOut[i].population_analyzed = 900000
            /\ WideOut[i].pop_comparable
            /\ WideOut[i].pt_change_3 # NA /\ WideOut[i].pt_change_4 # NA

\* The groups of the long frame with the latest period_start before that of wide
\* row r, among those of its location.
PrecedingPeriod(r) ==
    { g \in ipc_long :
        /\ g.location_code = r.location_code /\ g.From < r.From
        /\ \A h \in ipc_long :
              (h.location_code = r.location_code /\ h.From < r.From) => h.From <= g.From }

\* C23: pop_comparable and the point changes of a record are taken against a record
\* of its location with the immediately preceding period_start, whatever the
\* ipc_type; a record with no earlier period_start in its location is not
\* comparable and has both point changes missing.
C23_AgainstPrecedingPeriodStart ==
    WideDone =>
        \A i \in 1..Len(WideOut) :
            LET r == WideOut[i]
            IN  IF PrecedingPeriod(r) = {}
                THEN ~r.pop_comparable /\ r.pt_change_3 = NA /\ r.pt_change_4 = NA
                ELSE \E g \in PrecedingPeriod(r) :
                        /\ r.pop_comparable <=>
                              10 * Abs(r.population_analyzed - g.population_analyzed)
                                  <= g.population_analyzed
                        /\ r.pop_comparable =>
                              /\ r.pt_change_3 # NA /\ r.pt_change_4 # NA
                              /\ Abs(r.pt_change_3 * 10 - (r.proportion_3 - g.fraction_3)) <= 5
                              /\ Abs(r.pt_change_4 * 10 - (r.proportion_4 - g.fraction_4)) <= 5
                        /\ ~r.pop_comparable => (r.pt_change_3 = NA /\ r.pt_change_4 = NA)

\* Every group of the long frame has exactly one row for each of "3+", "4+", "5".
GroupsComplete == \A g \in ipc_long : g.phases = WidePhases /\ g.twice = {}

MaxReports == 3

\* priority_order
PriorityOrder == << "current", "first projection", "second projection" >>

\* The code of ipc_type in the ordered categorical ipc_type_cat.
TypeRank(t) == CHOOSE k \in 1..Len(PriorityOrder) : PriorityOrder[k] = t

\* Period ends and the values pd.Timestamp.now() takes among them.
PeriodEnds == 1..3

NowValues == {1, 2}

\* The frames classify_reports returns: rows in (location_code, From) order, From
\* being the row's position.
ClassifiedFrames ==
    { f \in UNION { [1..n -> [location_code : {"KEN", "UGA"},
                              ipc_type : {"current", "first projection",
                                          "second projection"},
                              To : PeriodEnds]] : n \in 0..MaxReports } :
        \A i \in 1..Len(f), j \in 1..Len(f) :
            i < j => LocRank(f[i].location_code) <= LocRank(f[j].location_code) }

\* _df[_df.To > cur]
IsActive(r, cur) == r.To > cur

\* The positions of df in the order of
\* sort_values(["location_code", "ipc_type_cat"]), a stable sort: rows with equal
\* keys keep the order of the frame.
LatestBefore(df, i, j) ==
    \/ LocRank(df[i].location_code) < LocRank(df[j].location_code)
    \/ /\ df[i].location_code = df[j].location_code
       /\ \/ TypeRank(df[i].ipc_type) < TypeRank(df[j].ipc_type)
          \/ (df[i].ipc_type = df[j].ipc_type /\ i < j)

RECURSIVE SortPositions(_, _)
SortPositions(df, I) ==
    IF I = {} THEN << >>
    ELSE LET first == CHOOSE i \in I : \A j \in I \ {i} : LatestBefore(df, i, j)
         IN  << first >> \o SortPositions(df, I \ {first})

\* Mutant: drop_duplicates(subset=["location_code"], keep="last").
DropDuplicatesKeepLast(df, order) ==
    SelectSeq(order,
              LAMBDA i : \A k \in 1..Len(order) :
                  (df[order[k]].location_code = df[i].location_code
                     /\ order[k] # i) => LatestBefore(df, order[k], i))

\* drop_duplicates(subset=["location_code"], keep="first") on the sorted positions.
DropDuplicates(df, order) ==
    SelectSeq(order,
              LAMBDA i : \A k \in 1..Len(order) :
                  (df[order[k]].location_code = df[i].location_code
                     /\ order[k] # i) => LatestBefore(df, i, order[k]))

\* process_latest_ipc(df) with pd.Timestamp.now() = cur: the frame returned, rows
\* given with their From (position in df), or the AssertionError.
process_latest_ipc(df, cur) ==
    LET active == {i \in 1..Len(df) : IsActive(df[i], cur)}
        order == SortPositions(df, active)
        kept == DropDuplicates(df, order)
        nunique == Cardinality({df[i].location_code : i \in active})
    IN  IF nunique = Len(kept)
        THEN [err |-> "none", cur |-> cur,
              df |-> [k \in 1..Len(kept) |->
                        [location_code |-> df[kept[k]].location_code,
                         ipc_type |-> df[kept[k]].ipc_type,
                         From |-> kept[k],
                         To |-> df[kept[k]].To]]]
        ELSE [err |-> "AssertionError", cur |-> cur, df |-> << >>]

InitLatest ==
    /\ ipc_classified \in ClassifiedFrames
    /\ ipc_latest = Pending
    /\ HsIdle /\ RowIdle /\ WideIdle /\ MergeIdle /\ RunIdle /\ ExpIdle /\ PhaseIdle /\ CurIdle /\ CallIdle /\ AlertIdle

ProcessLatestIpc ==
    /\ ipc_latest = Pending
    /\ \E cur \in NowValues :
            ipc_latest' = << process_latest_ipc(ipc_classified, cur) >>
    /\ UNCHANGED << ipc_classified, hsVars, rowVars, wideVars, mergeVars, runVars, expVars, phaseVars, curVars, callVars, alertVars >>

NextLatest == ProcessLatestIpc

SpecLatest == InitLatest /\ [][NextLatest]_vars

LatestDone == ipc_latest # Pending

\* The rows of the argument whose period ends after the "now" of the call.
ActiveOf(loc) ==
    { i \in 1..Len(ipc_classified) :
        /\ ipc_classified[i].location_code = loc
        /\ ipc_classified[i].To > ipc_latest[1].cur }

\* The rows returned for a location.
ReturnedOf(loc) ==
    { k \in 1..Len(ipc_latest[1].df) : ipc_latest[1].df[k].location_code = loc }

\* C8: the call returns, for every location with a report ending after now,
\* exactly one record, an active one whose ipc_type no active record of the
\* location outranks; for a location without an active report, none; and never an
\* expired report.
C8_OneActivePerLocationByPriority ==
    LatestDone =>
        /\ ipc_latest[1].err = "none"
        /\ \A loc \in {"KEN", "UGA"} :
              IF ActiveOf(loc) = {} THEN ReturnedOf(loc) = {}
              ELSE /\ Cardinality(ReturnedOf(loc)) = 1
                   /\ \A k \in ReturnedOf(loc) :
                        LET r == ipc_latest[1].df[k]
                        IN  /\ r.From \in ActiveOf(loc)
                            /\ r.ipc_type = ipc_classified[r.From].ipc_type
                            /\ \A i \in ActiveOf(loc) :
                                  TypeRank(r.ipc_type)
                                      <= TypeRank(ipc_classified[i].ipc_type)
        /\ \A k \in 1..Len(ipc_latest[1].df) :
              ipc_latest[1].df[k].To > ipc_latest[1].cur

\* C8 witness: a location with an active second projection, an active current
\* report after it in the frame, and an expired current report; the active
\* current report is the one returned.
C8_Witness ==
    /\ LatestDone
    /\ \E i, j, x \in 1..Len(ipc_classified) :
          /\ i < j
          /\ ipc_classified[i].location_code = "KEN"
          /\ ipc_classified[j].location_code = "KEN"
          /\ ipc_classified[x].location_code = "KEN"
          /\ ipc_classified[i].ipc_type = "second projection"
          /\ ipc_classified[j].ipc_type = "current"
          /\ ipc_classified[x].ipc_type = "current"
          /\ i \in ActiveOf("KEN") /\ j \in ActiveOf("KEN") /\ x \notin ActiveOf("KEN")
          /\ \E k \in ReturnedOf("KEN") : ipc_latest[1].df[k].From = j

\* C9 as claimed: when a location has two active reports of its highest-priority
\* ipc_type, the call raises instead of returning one of them.
C9_DuplicateLatestRaises ==
    LatestDone =>
        \A loc \in {"KEN", "UGA"} :
            (\E i, j \in ActiveOf(loc) :
                /\ i # j
                /\ ipc_classified[i].ipc_type = ipc_classified[j].ipc_type
                /\ \A x \in ActiveOf(loc) :
                      TypeRank(ipc_classified[i].ipc_type)
                          <= TypeRank(ipc_classified[x].ipc_type))
            => ipc_latest[1].err # "none"

(***************************************************************************)
(* Merge of the two alert tables: src/src/utils.py, merge_ipc_hotspots     *)
(***************************************************************************)

\* location_code values of the two tables.
MergeCountries == {"KEN", "UGA", "ZMB"}

\* alert_level of a hotspot row ("None" for a code outside 0..2) and of an IPC row.
HsLevels == {"low", "medium", "high", "very high", "None"}

IpcLevels == {"low", "medium", "high", "very high"}

\* A table with one row per country: the alert_level of each location_code it has.
HsTables == UNION {[K -> HsLevels] : K \in SUBSET MergeCountries}

IpcTables == UNION {[K -> IpcLevels] : K \in SUBSET MergeCountries}

\* alert_map; a level that is no key of it maps to NaN.
AlertMap(level) ==
    CASE level = "low" -> 1
      [] level = "medium" -> 2
      [] level = "high" -> 3
      [] level = "very high" -> 4
      [] OTHER -> NA

\* reverse_map; NaN maps to NaN.
ReverseMap(n) ==
    CASE n = 1 -> "low"
      [] n = 2 -> "medium"
      [] n = 3 -> "high"
      [] n = 4 -> "very high"
      [] OTHER -> "None"

\* Mutant: max(axis=1, skipna=False).
RowMaxKeepNa(a, b) == IF a = NA \/ b = NA THEN NA ELSE Max(a, b)

\* max(axis=1, skipna=True) of a row of two values.
RowMaxSkipNa(a, b) == IF a = NA THEN b ELSE IF b = NA THEN a ELSE Max(a, b)

\* df_hs.merge(df_ipc, on="location_code", how="outer") with max_alert_level, by
\* location_code.  A column of the side a row lacks is missing; date is a column
\* of the hotspot side and ipc_type one of the IPC side.
MergedRows(hs, ipc) ==
    [c \in (DOMAIN hs) \cup (DOMAIN ipc) |->
        LET level_hs == IF c \in DOMAIN hs THEN hs[c] ELSE "None"
            level_ipc == IF c \in DOMAIN ipc THEN ipc[c] ELSE "None"
        IN  [location_code |-> c,
             date |-> IF c \in DOMAIN hs THEN "date" ELSE "None",
             ipc_type |-> IF c \in DOMAIN ipc THEN "ipc_type" ELSE "None",
             alert_level_hs |-> level_hs,
             alert_level_ipc |-> level_ipc,
             max_alert_level |->
                 ReverseMap(RowMaxSkipNa(AlertMap(level_hs), AlertMap(level_ipc)))]]

\* len(df): the rows of a table.
Rows(df) == Cardinality(DOMAIN df)

\* Mutant: the assertion is not made.
RowCountAssertionOff(merged, hs, ipc) == TRUE

\* assert len(df_merged) == max(len(df_hs), len(df_ipc))
RowCountAssertion(merged, hs, ipc) == Rows(merged) = Max(Rows(hs), Rows(ipc))

InitMerge ==
    /\ df_hs \in HsTables
    /\ df_ipc \in IpcTables
    /\ df_merged = Pending
    /\ HsIdle /\ RowIdle /\ WideIdle /\ LatestIdle /\ RunIdle /\ ExpIdle /\ PhaseIdle /\ CurIdle /\ CallIdle /\ AlertIdle

\* merge_ipc_hotspots returns df_clean.
MergeIpcHotspots ==
    /\ df_merged = Pending
    /\ RowCountAssertion(MergedRows(df_hs, df_ipc), df_hs, df_ipc)
    /\ df_merged' = << [err |-> "none", df |-> MergedRows(df_hs, df_ipc)] >>
    /\ UNCHANGED << df_hs, df_ipc, hsVars, rowVars, wideVars, latestVars, runVars, expVars, phaseVars, curVars, callVars, alertVars >>

\* The row-count assertion fails.
MergeAssertFails ==
    /\ df_merged = Pending
    /\ ~RowCountAssertion(MergedRows(df_hs, df_ipc), df_hs, df_ipc)
    /\ df_merged' = << [err |-> "AssertionError", df |-> << >>] >>
    /\ UNCHANGED << df_hs, df_ipc, hsVars, rowVars, wideVars, latestVars, runVars, expVars, phaseVars, curVars, callVars, alertVars >>

NextMerge == MergeIpcHotspots \/ MergeAssertFails

SpecMerge == InitMerge /\ [][NextMerge]_vars

MergeDone == df_merged # Pending

MergeReturned == MergeDone /\ df_merged[1].err = "none"

\* The table returned.
MergeOut == df_merged[1].df

\* low < medium < high < very high
LevelOrder == << "low", "medium", "high", "very high" >>

LevelRank(level) == CHOOSE k \in 1..4 : LevelOrder[k] = level

\* C4: in every row returned, the two alert levels are those of the inputs and
\* max_alert_level is the higher of the levels present: the level of the one side
\* when the other has none, the higher of the two when both have one.
C4_MaxAlertLevelSkipsMissing ==
    MergeReturned =>
        \A c \in DOMAIN MergeOut :
            LET r == MergeOut[c]
                h == r.alert_level_hs
                i == r.alert_level_ipc
            IN  /\ h = (IF c \in DOMAIN df_hs THEN df_hs[c] ELSE "None")
                /\ i = (IF c \in DOMAIN df_ipc THEN df_ipc[c] ELSE "None")
                /\ (h # "None" /\ i = "None") => r.max_alert_level = h
                /\ (h = "None" /\ i # "None") => r.max_alert_level = i
                /\ (h # "None" /\ i # "None") =>
                      /\ r.max_alert_level \in {h, i}
                      /\ LevelRank(r.max_alert_level) >= LevelRank(h)
                      /\ LevelRank(r.max_alert_level) >= LevelRank(i)

\* C4 witness: a returned table with a row that has only a hotspot level above low,
\* and a row where the IPC level is the higher of two.
C4_Witness ==
    /\ MergeReturned
    /\ \E c \in DOMAIN MergeOut :
          /\ MergeOut[c].ipc_type = "None"
          /\ MergeOut[c].alert_level_hs = "high"
          /\ MergeOut[c].max_alert_level = "high"
    /\ \E c \in DOMAIN MergeOut :
          /\ MergeOut[c].alert_level_hs = "medium"
          /\ MergeOut[c].alert_level_ipc = "very high"
          /\ MergeOut[c].max_alert_level = "very high"

C11_DisjointInputsAreMerged ==
    (/\ MergeDone
     /\ DOMAIN df_hs # {} /\ DOMAIN df_ipc # {}
     /\ (DOMAIN df_hs) \cap (DOMAIN df_ipc) = {})
        => /\ df_merged[1].err = "none"
           /\ Rows(MergeOut) = Rows(df_hs) + Rows(df_ipc)
           /\ \A c \in DOMAIN df_hs :
                 /\ c \in DOMAIN MergeOut
                 /\ MergeOut[c].alert_level_ipc = "None"
                 /\ MergeOut[c].max_alert_level = df_hs[c]
           /\ \A c \in DOMAIN df_ipc :
                 /\ c \in DOMAIN MergeOut
                 /\ MergeOut[c].alert_level_hs = "None"
                 /\ MergeOut[c].max_alert_level = df_ipc[c]

(***************************************************************************)
(* The monitoring run: src/check_slow_onset.py.  The run computes the      *)
(* summary, loads the persisted one, compares the two and, if they differ  *)
(* or --force is given, renders the table and uploads three blobs one      *)
(* after the other.  No statement of the run is inside a try block: an     *)
(* exception at any statement ends the run there.                          *)
(***************************************************************************)

\* Rows of a summary table.
MaxRunRows == 2

\* max_alert_level and alert_level_detail of a summary row (two of the columns;
\* alert_level_detail is one of the last nine, which the rendered table drops).
SummaryLevels == {"low", "high"}

SummaryDetails == {"d", "None"}

SummaryRows == [max_alert_level : SummaryLevels, alert_level_detail : SummaryDetails]

\* A summary: rows 0..n-1 (a RangeIndex) over the fixed columns of df_clean.
SummaryTables == UNION {[1..n -> SummaryRows] : n \in 1..MaxRunRows}

\* The three blobs of ds-rosea-thresholds/monitoring/ (the dated one is that of
\* the day of the run).
PNG == "summary_table.png"

CSV == "summary.csv"

DATED == "dated/summary.csv"

BlobNames == {PNG, CSV, DATED}

\* The content of a blob that does not exist.
Absent == << >>

\* to_csv writes a missing value as an empty field.
CsvField(v) == IF v = "None" THEN "" ELSE v

\* upload_csv_to_blob: the CSV text of a table, one record of fields per row.
ToCsv(df) ==
    [i \in 1..Len(df) |->
        [max_alert_level |-> CsvField(df[i].max_alert_level),
         alert_level_detail |-> CsvField(df[i].alert_level_detail)]]

\* read_csv reads an empty field as NaN.
CsvValue(f) == IF f = "" THEN "None" ELSE f

\* load_csv_from_blob: the table parsed from a CSV text.
ReadCsv(csv) ==
    [i \in 1..Len(csv) |->
        [max_alert_level |-> CsvValue(csv[i].max_alert_level),
         alert_level_detail |-> CsvValue(csv[i].alert_level_detail)]]

\* DataFrame.compare raises ValueError unless the two frames have the same row
\* and column labels (the columns are fixed here, the rows are 0..n-1).
IdenticallyLabelled(a, b) == Len(a) = Len(b)

\* Mutant: only the first column is compared.
CompareFirstColumn(a, b) ==
    {i \in 1..Len(a) : a[i].max_alert_level # b[i].max_alert_level}

\* df_clean.compare(df_latest): the index of the result, which is the rows with a
\* differing cell (two missing values are equal).
Compare(a, b) == {i \in 1..Len(a) : a[i] # b[i]}

\* len(diff) != 0 or args.force
PublishDecision(d, f) == d # {} \/ f

\* severity_order of plot.summary_table.
SeverityOrder(level) == IF level = "low" THEN 0 ELSE 2

\* The arrow plot.summary_table appends to the country of a changed row.
Direction(old, new) ==
    IF SeverityOrder(old) < SeverityOrder(new) THEN "up"
    ELSE IF SeverityOrder(old) > SeverityOrder(new) THEN "down"
    ELSE ""

\* plot.summary_table(df_table, diff if len(diff) != 0 else None), saved as an
\* image: every row of the table, the rows of diff with their arrow.
summary_table(df, changes, other) ==
    [i \in 1..Len(df) |->
        [max_alert_level |-> df[i].max_alert_level,
         direction |-> IF i \in changes
                       THEN Direction(other[i].max_alert_level, df[i].max_alert_level)
                       ELSE ""]]

\* The container before the run: nothing published yet, or the publication of
\* an earlier run (whose dated blob is that of the day of this run or not).
PreviousPublications ==
    {[n \in BlobNames |-> Absent]} \cup
    UNION {{[n \in BlobNames |->
                IF n = PNG THEN << summary_table(P, {}, P) >>
                ELSE IF n = CSV THEN ToCsv(P)
                ELSE d] : d \in {Absent, ToCsv(P)}} : P \in SummaryTables}

\* The steps of lines 22-33 that can raise.
ComputeSteps == {"fetch", "classification", "merge"}

InitRun ==
    /\ force \in BOOLEAN
    /\ blob \in PreviousPublications
    /\ blob_before = blob
    /\ df_clean = << >> /\ df_latest = Pending /\ diff = Pending
    /\ run_pc = "start" /\ run_err = "none"
    /\ HsIdle /\ RowIdle /\ WideIdle /\ LatestIdle /\ MergeIdle /\ ExpIdle /\ PhaseIdle /\ CurIdle /\ CallIdle /\ AlertIdle

\* The run ends at a statement that raised.
Raise(step) ==
    /\ run_pc' = "failed"
    /\ run_err' = step
    /\ UNCHANGED << force, df_clean, df_latest, diff, blob, blob_before >>
    /\ UNCHANGED << hsVars, rowVars, wideVars, latestVars, mergeVars, expVars, phaseVars, curVars, callVars, alertVars >>

\* Lines 22-33: df_clean is computed.
Compute ==
    /\ run_pc = "start"
    /\ df_clean' \in SummaryTables
    /\ run_pc' = "merged"
    /\ UNCHANGED << force, df_latest, diff, blob, blob_before, run_err >>
    /\ UNCHANGED << hsVars, rowVars, wideVars, latestVars, mergeVars, expVars, phaseVars, curVars, callVars, alertVars >>

ComputeRaises ==
    /\ run_pc = "start"
    /\ \E step \in ComputeSteps : Raise(step)

\* Lines 36-39: the persisted summary is loaded.
LoadSnapshot ==
    /\ run_pc = "merged"
    /\ blob[CSV] # Absent
    /\ df_latest' = << ReadCsv(blob[CSV]) >>
    /\ run_pc' = "loaded"
    /\ UNCHANGED << force, df_clean, diff, blob, blob_before, run_err >>
    /\ UNCHANGED << hsVars, rowVars, wideVars, latestVars, mergeVars, expVars, phaseVars, curVars, callVars, alertVars >>

\* Lines 36-39 when summary.csv does not exist: nothing tests for the blob, the
\* download raises.
LoadSnapshotMissing ==
    /\ run_pc = "merged"
    /\ blob[CSV] = Absent
    /\ Raise("snapshot read")

\* Lines 36-39: the download fails.
LoadSnapshotRaises ==
    /\ run_pc = "merged"
    /\ blob[CSV] # Absent
    /\ Raise("snapshot read")

\* Line 40.
CompareSnapshot ==
    /\ run_pc = "loaded"
    /\ IdenticallyLabelled(df_clean, df_latest[1])
    /\ diff' = << Compare(df_clean, df_latest[1]) >>
    /\ run_pc' = "compared"
    /\ UNCHANGED << force, df_clean, df_latest, blob, blob_before, run_err >>
    /\ UNCHANGED << hsVars, rowVars, wideVars, latestVars, mergeVars, expVars, phaseVars, curVars, callVars, alertVars >>

\* Line 40 on two tables of different row counts: ValueError.
CompareRaises ==
    /\ run_pc = "loaded"
    /\ ~IdenticallyLabelled(df_clean, df_latest[1])
    /\ Raise("diff")

\* Lines 68-69.
NoChanges ==
    /\ run_pc = "compared"
    /\ ~PublishDecision(diff[1], force)
    /\ run_pc' = "nochange"
    /\ UNCHANGED << force, df_clean, df_latest, diff, blob, blob_before, run_err >>
    /\ UNCHANGED << hsVars, rowVars, wideVars, latestVars, mergeVars, expVars, phaseVars, curVars, callVars, alertVars >>

\* Lines 43-52: the table is rendered and saved to a temporary file.
Render ==
    /\ run_pc = "compared"
    /\ PublishDecision(diff[1], force)
    /\ run_pc' = "rendered"
    /\ UNCHANGED << force, df_clean, df_latest, diff, blob, blob_before, run_err >>
    /\ UNCHANGED << hsVars, rowVars, wideVars, latestVars, mergeVars, expVars, phaseVars, curVars, callVars, alertVars >>

RenderRaises ==
    /\ run_pc = "compared"
    /\ PublishDecision(diff[1], force)
    /\ Raise("render")

\* A blob is overwritten and the run moves on.
Upload(name, content, next) ==
    /\ blob' = [blob EXCEPT ![name] = content]
    /\ run_pc' = next
    /\ UNCHANGED << force, df_clean, df_latest, diff, blob_before, run_err >>
    /\ UNCHANGED << hsVars, rowVars, wideVars, latestVars, mergeVars, expVars, phaseVars, curVars, callVars, alertVars >>

\* Lines 54-57.
UploadPng ==
    /\ run_pc = "rendered"
    /\ Upload(PNG, << summary_table(df_clean, diff[1], df_latest[1]) >>, "png")

UploadPngRaises == run_pc = "rendered" /\ Raise(PNG)

\* Lines 60-62.
UploadCsv == run_pc = "png" /\ Upload(CSV, ToCsv(df_clean), "csv")

UploadCsvRaises == run_pc = "png" /\ Raise(CSV)

\* Lines 63-66.
UploadDated == run_pc = "csv" /\ Upload(DATED, ToCsv(df_clean), "done")

UploadDatedRaises == run_pc = "csv" /\ Raise(DATED)

NextRun ==
    \/ Compute \/ ComputeRaises
    \/ LoadSnapshot \/ LoadSnapshotMissing \/ LoadSnapshotRaises
    \/ CompareSnapshot \/ CompareRaises
    \/ NoChanges \/ Render \/ RenderRaises
    \/ UploadPng \/ UploadPngRaises
    \/ UploadCsv \/ UploadCsvRaises
    \/ UploadDated \/ UploadDatedRaises

SpecRun == InitRun /\ [][NextRun]_vars

\* The run has ended: it published, found no change, or raised.
RunOver == run_pc \in {"done", "nochange", "failed"}

\* The run has compared the two summaries.
Compared == diff # Pending

\* Some cell of some row of the new summary differs from the persisted one.
Differs == \E i \in 1..Len(df_clean) : df_clean[i] # df_latest[1][i]

\* The complete publication of the new summary.
FullPublication ==
    [n \in BlobNames |->
        IF n = PNG THEN << summary_table(df_clean, diff[1], df_latest[1]) >>
        ELSE ToCsv(df_clean)]

\* C12: a run that has compared its summary with the persisted one and ends
\* without an exception publishes exactly when some cell differs or force is
\* set; when it publishes, the three blobs hold the full new table; when it does
\* not, the container is as before.  Nothing is ever written unless some cell
\* differs or force is set, and what is written is the new table in full.
C12_PublishesIffChangedOrForced ==
    /\ run_pc = "done" =>
          /\ Differs \/ force
          /\ blob = FullPublication
          /\ Len(blob[CSV]) = Len(df_clean)
    /\ run_pc = "nochange" =>
          /\ ~Differs /\ ~force
          /\ blob = blob_before
    /\ (Compared /\ run_pc \in {"done", "nochange"}) =>
          (run_pc = "done" <=> (Differs \/ force))
    /\ blob # blob_before =>
          /\ Compared /\ (Differs \/ force)
          /\ \A n \in BlobNames : blob[n] \in {blob_before[n], FullPublication[n]}

\* C12 witness: without force, a run has published a two-row table of which one
\* row differs from the persisted one, in its second cell only.
C12_Witness ==
    /\ run_pc = "done" /\ ~force
    /\ Len(df_clean) = 2
    /\ df_clean[1] = df_latest[1][1]
    /\ df_clean[2].max_alert_level = df_latest[1][2].max_alert_level
    /\ df_clean[2].alert_level_detail # df_latest[1][2].alert_level_detail
    /\ blob # blob_before

\* C13 as claimed: when no summary.csv is persisted the run does not end at the
\* snapshot read; unless an earlier step raised, it goes on to publish.
C13_FirstRunPublishes ==
    (RunOver /\ blob_before[CSV] = Absent) =>
        /\ run_err # "snapshot read"
        /\ run_err \notin ComputeSteps => Compared \/ run_pc = "done"

\* C14 as claimed: when the run has ended, by completing or by an exception at
\* any step, the container holds either the complete new publication or exactly
\* what it held before the run.
C14_PublicationAllOrNothing ==
    RunOver => (blob = blob_before \/ (Compared /\ blob = FullPublication))

(***************************************************************************)
(* Exposure aggregation: src/src/asap/threshold_analyzer.py,               *)
(* ThresholdAnalyzer._process_warnings_data, _calculate_exposure_for_type  *)
(* and calculate_monthly_exposure.  A warnings frame is a set of dekadal   *)
(* records, at most one per admin-2 unit and date.  A percentage is kept   *)
(* as the exact fraction num/den.                                          *)
(***************************************************************************)

\* Dekadal records in a warnings frame.
MaxExpRows == 2

\* The warning types (the keys of WARNING_COLUMNS; a record's column of that
\* name holds the type's label).
WarningTypes == {"crop", "range"}

\* WARNING_THRESHOLDS
WARNING_THRESHOLDS == {1, 2, 3, 4}

\* Series.map(WARNING_LEVEL_HIERARCHY): a label that is no key maps to NaN.
WARNING_LEVEL_HIERARCHY(label) ==
    CASE label = "No warning" -> 0
      [] label = "Warning group 1" -> 1
      [] label = "Warning group 2" -> 2
      [] label = "Warning group 3" -> 3
      [] label = "Warning group 4" -> 4
      [] label = "Off season" -> -1
      [] label = "No crop/rangeland" -> -2
      [] OTHER -> NA

\* The labels of the frames drawn: every key of the hierarchy occurs in one of
\* the two columns, and "Warning group 5" is no key.
CropLabels ==
    {"No warning", "Warning group 2", "Warning group 4", "Off season", "Warning group 5"}

RangeLabels == {"Warning group 1", "Warning group 3", "No crop/rangeland"}

\* asap2_id of the admin-2 units, and the asap0_name each belongs to.
Admin2Ids == {1, 2, 3}

CountryOf(u) == IF u = 3 THEN "Uganda" ELSE "Kenya"

\* dt.to_period("M") of a date: dekads 1 and 2 are of one month, dekad 3 of the next.
YearMonth(date) == IF date <= 2 THEN "2024-01" ELSE "2024-02"

\* The (asap2_id, date) pairs a frame may have a record for.
ExpSlots == {<< 1, 1 >>, << 1, 2 >>, << 2, 2 >>, << 3, 3 >>}

WarningRecord(slot, crop, range) ==
    [asap0_name |-> CountryOf(slot[1]), asap2_id |-> slot[1], date |-> slot[2],
     crop |-> crop, range |-> range]

\* The warnings frames read: up to `most` records.
WarningFrames(most) ==
    UNION {{{WarningRecord(sl, f[sl][1], f[sl][2]) : sl \in S} :
                f \in [S -> CropLabels \X RangeLabels]} :
           S \in {T \in SUBSET ExpSlots : Cardinality(T) <= most}}

\* The population tables: asap2_id -> population, for the units that have one.
PopulationTables ==
    {p \in UNION {[U -> 0..2] : U \in {{1, 3}, {1, 2, 3}}} : p[3] = 1}

\* _process_warnings_data on one record: year_month and the two numeric columns.
ProcessedRecord(r) ==
    [asap0_name |-> r.asap0_name, asap2_id |-> r.asap2_id, date |-> r.date,
     crop |-> r.crop, range |-> r.range,
     year_month |-> YearMonth(r.date),
     crop_warning_numeric |-> WARNING_LEVEL_HIERARCHY(r.crop),
     range_warning_numeric |-> WARNING_LEVEL_HIERARCHY(r.range)]

\* _process_warnings_data
process_warnings_data(df) == {ProcessedRecord(r) : r \in df}

\* The numeric column of a warning type.
NumericColumn(type) ==
    IF type = "crop" THEN "crop_warning_numeric" ELSE "range_warning_numeric"

\* pd.merge(warnings_data, population_data, on=asap2_id, how="left") followed by
\* dropna(subset=["population"]): the records of units that have a population.
WarningsWithPop(df, pop) ==
    {[asap0_name |-> r.asap0_name, asap2_id |-> r.asap2_id, date |-> r.date,
      crop |-> r.crop, range |-> r.range, year_month |-> r.year_month,
      crop_warning_numeric |-> r.crop_warning_numeric,
      range_warning_numeric |-> r.range_warning_numeric,
      population |-> pop[r.asap2_id]] : r \in {x \in df : x.asap2_id \in DOMAIN pop}}

\* The missing value of a column: None in a label column, NaN in the others.
NullOf(col) == IF col \in WarningTypes THEN "None" ELSE NA

\* GroupBy.last() on a group sorted by date, for one column: the value of the
\* latest row in which the column is not null (null if it is null in all).
LastNotNull(G, col) ==
    LET N == {x \in G : x[col] # NullOf(col)}
    IN  IF N = {} THEN NullOf(col)
        ELSE (CHOOSE x \in N : \A y \in N : x.date >= y.date)[col]

\* sort_values("date").groupby([asap0_name, year_month, asap2_id]).last():
\* one row per unit and month.
MonthlyData(wp) ==
    {LET G == {r \in wp : r.year_month = k[1] /\ r.asap2_id = k[2]}
     IN  [asap0_name |-> CountryOf(k[2]), year_month |-> k[1], asap2_id |-> k[2],
          date |-> LastNotNull(G, "date"),
          crop |-> LastNotNull(G, "crop"),
          range |-> LastNotNull(G, "range"),
          crop_warning_numeric |-> LastNotNull(G, "crop_warning_numeric"),
          range_warning_numeric |-> LastNotNull(G, "range_warning_numeric"),
          population |-> LastNotNull(G, "population")]
     : k \in {<< r.year_month, r.asap2_id >> : r \in wp}}

\* group["population"].sum()
RECURSIVE SumPopulation(_)
SumPopulation(G) ==
    IF G = {} THEN 0
    ELSE LET r == CHOOSE x \in G : TRUE
         IN  r.population + SumPopulation(G \ {r})

\* Mutant: strictly above the threshold.
ThresholdMemberStrict(level, threshold) == level # NA /\ level > threshold

\* Mutant: only the units exactly at the threshold level are counted.
ThresholdMemberExact(level, threshold) == level # NA /\ level = threshold

\* (group[numeric_column] >= threshold) & (group[numeric_column] >= 0); a
\* comparison with NaN is False.
ThresholdMember(level, threshold) == level # NA /\ level >= threshold /\ level >= 0

\* Mutant: no test of the total.
PctNoGuard(threshold_pop, total) == [num |-> 100 * threshold_pop, den |-> total]

\* threshold_pop / total_population * 100 if total_population > 0 else 0
Pct(threshold_pop, total) ==
    IF total > 0 THEN [num |-> 100 * threshold_pop, den |-> total]
    ELSE [num |-> 0, den |-> 1]

\* warning_level.lower().replace(" ", "_"): the column suffix of a label.
BucketName(label) ==
    CASE label = "No warning" -> "no_warning"
      [] label = "Warning group 1" -> "warning_group_1"
      [] label = "Warning group 2" -> "warning_group_2"
      [] label = "Warning group 3" -> "warning_group_3"
      [] label = "Warning group 4" -> "warning_group_4"
      [] label = "Warning group 5" -> "warning_group_5"
      [] label = "Off season" -> "off_season"
      [] label = "No crop/rangeland" -> "no_crop/rangeland"

\* The {type}_pop_{level} columns of the frame of a type: one for each label that
\* occurs in some month of some country.
BucketColumns(md, type) == {BucketName(r[type]) : r \in md}

\* The result of one (country, month) group for a type, after fillna(0).
ExposureRow(md, type, country, month) ==
    LET group == {r \in md : r.asap0_name = country /\ r.year_month = month}
        total == SumPopulation(group)
    IN  [country |-> country,
         year_month |-> month,
         total_population |-> total,
         pop_level |->
             [b \in BucketColumns(md, type) |->
                 SumPopulation({r \in group : BucketName(r[type]) = b})],
         pop_warning_plus |->
             [t \in WARNING_THRESHOLDS |->
                 SumPopulation({r \in group :
                     ThresholdMember(r[NumericColumn(type)], t)})],
         pct_warning_plus |->
             [t \in WARNING_THRESHOLDS |->
                 Pct(SumPopulation({r \in group :
                         ThresholdMember(r[NumericColumn(type)], t)}), total)]]

\* _calculate_exposure_for_type: one row per (asap0_name, year_month) group.
calculate_exposure_for_type(wp, type) ==
    LET md == MonthlyData(wp)
    IN  {ExposureRow(md, type, k[1], k[2]) :
            k \in {<< r.asap0_name, r.year_month >> : r \in md}}

\* The columns of a type filled with 0 in a merged row the type has no row for.
ZeroStats(frame) ==
    LET any == CHOOSE x \in frame : TRUE
    IN  [pop_level |-> [b \in DOMAIN any.pop_level |-> 0],
         pop_warning_plus |-> [t \in WARNING_THRESHOLDS |-> 0],
         pct_warning_plus |-> [t \in WARNING_THRESHOLDS |-> [num |-> 0, den |-> 1]]]

\* The columns of a type in a row of its frame.
StatsOf(row) ==
    [pop_level |-> row.pop_level,
     pop_warning_plus |-> row.pop_warning_plus,
     pct_warning_plus |-> row.pct_warning_plus]

\* Mutant: the merge is on country, year_month and a statistic of the type.
MergeKeyWithStatistic(row) ==
    << row.country, row.year_month, row.pop_warning_plus[1] >>

\* on=["country", "year_month", "total_population"]
MergeKey(row) == << row.country, row.year_month, row.total_population >>

\* pd.merge(crop_exposure, range_exposure, on=..., how="outer").fillna(0)
MergeExposure(crop_exposure, range_exposure) ==
    LET Row(key, c, r) ==
            [country |-> key[1], year_month |-> key[2], total_population |-> key[3],
             crop |-> c, range |-> r]
        Key3(row) == << row.country, row.year_month, row.total_population >>
    IN  UNION {{Row(Key3(c), StatsOf(c), StatsOf(r)) :
                      r \in {x \in range_exposure : MergeKey(x) = MergeKey(c)}} :
                  c \in crop_exposure}
        \cup
        {Row(Key3(c), StatsOf(c), ZeroStats(range_exposure)) :
            c \in {x \in crop_exposure :
                      \A r \in range_exposure : MergeKey(r) # MergeKey(x)}}
        \cup
        {Row(Key3(r), ZeroStats(crop_exposure), StatsOf(r)) :
            r \in {x \in range_exposure :
                      \A c \in crop_exposure : MergeKey(c) # MergeKey(x)}}

\* calculate_monthly_exposure
calculate_monthly_exposure(df, pop) ==
    LET wp == WarningsWithPop(df, pop)
    IN  MergeExposure(calculate_exposure_for_type(wp, "crop"),
                      calculate_exposure_for_type(wp, "range"))

\* self.warnings_data as _process_warnings_data left it.
WarningsOut == warnings_data[1].df

InitExp ==
    /\ warnings_raw \in WarningFrames(MaxExpRows)
    /\ population_data \in PopulationTables
    /\ warnings_data = Pending
    /\ monthly_exposure = Pending
    /\ HsIdle /\ RowIdle /\ WideIdle /\ LatestIdle /\ MergeIdle /\ RunIdle /\ PhaseIdle /\ CurIdle /\ CallIdle /\ AlertIdle

\* load_warnings_data: _process_warnings_data returns.
ProcessWarningsData ==
    /\ warnings_data = Pending
    /\ warnings_data' = << [err |-> "none", df |-> process_warnings_data(warnings_raw)] >>
    /\ UNCHANGED << warnings_raw, population_data, monthly_exposure >>
    /\ UNCHANGED << hsVars, rowVars, wideVars, latestVars, mergeVars, runVars, phaseVars, curVars, callVars, alertVars >>

\* calculate_monthly_exposure returns self.monthly_exposure.
CalculateMonthlyExposure ==
    /\ warnings_data # Pending /\ monthly_exposure = Pending
    /\ WarningsWithPop(WarningsOut, population_data) # {}
    /\ monthly_exposure' =
          << [err |-> "none",
              df |-> calculate_monthly_exposure(WarningsOut, population_data)] >>
    /\ UNCHANGED << warnings_raw, warnings_data, population_data >>
    /\ UNCHANGED << hsVars, rowVars, wideVars, latestVars, mergeVars, runVars, phaseVars, curVars, callVars, alertVars >>

\* No record has a population: both exposure frames are pd.DataFrame([]), which
\* has no column, and the merge on "country" raises KeyError.
CalculateMonthlyExposureRaises ==
    /\ warnings_data # Pending /\ monthly_exposure = Pending
    /\ WarningsWithPop(WarningsOut, population_data) = {}
    /\ monthly_exposure' = << [err |-> "KeyError", df |-> {}] >>
    /\ UNCHANGED << warnings_raw, warnings_data, population_data >>
    /\ UNCHANGED << hsVars, rowVars, wideVars, latestVars, mergeVars, runVars, phaseVars, curVars, callVars, alertVars >>

NextExp ==
    ProcessWarningsData \/ CalculateMonthlyExposure \/ CalculateMonthlyExposureRaises

SpecExp == InitExp /\ [][NextExp]_vars

ExpDone == monthly_exposure # Pending

ExpReturned == ExpDone /\ monthly_exposure[1].err = "none"

\* The exposure table returned.
ExpOut == monthly_exposure[1].df

\* The monthly rows (one per admin-2 unit) behind an exposure row.
MonthlyRows(row) ==
    {r \in MonthlyData(WarningsWithPop(WarningsOut, population_data)) :
        r.asap0_name = row.country /\ r.year_month = row.year_month}

\* The exposed population of C15: the populations of the units of the month whose
\* numeric level is one of T..4.
ExposedAtOrAbove(row, type, T) ==
    SumPopulation({r \in MonthlyRows(row) : r[NumericColumn(type)] \in T..4})

\* The country-month of the row has the single unit r, at a level in 1..4.
SingleUnitAtLevel(row, type, r) ==
    /\ MonthlyRows(row) = {r}
    /\ r[NumericColumn(type)] \in 1..4

\* C15 as claimed, second part: for a single unit of population P at level
\* exactly L, the exposed population is P for every threshold <= L and 0 above,
\* and the percentage is 100.0 for every threshold <= L.
C15_SingleUnitPctAlways100 ==
    ExpReturned =>
        \A row \in ExpOut : \A type \in WarningTypes : \A r \in MonthlyRows(row) :
            SingleUnitAtLevel(row, type, r) =>
                \A T \in WARNING_THRESHOLDS :
                    /\ row[type].pop_warning_plus[T] =
                          (IF T <= r[NumericColumn(type)] THEN r.population ELSE 0)
                    /\ T <= r[NumericColumn(type)] =>
                          row[type].pct_warning_plus[T].num =
                              100 * row[type].pct_warning_plus[T].den

\* C15 as amended: for every row, type and threshold T the exposed population is
\* the sum of the populations of the units whose monthly level is in T..4 (a
\* unit at -1 or -2 counts for no threshold); for a single unit of population P
\* at level exactly L it is P for T <= L and 0 above, and the percentage for
\* T <= L is 100 when P > 0 and 0 when P = 0.
C15_ThresholdSums ==
    ExpReturned =>
        \A row \in ExpOut : \A type \in WarningTypes :
            /\ \A T \in WARNING_THRESHOLDS :
                  row[type].pop_warning_plus[T] = ExposedAtOrAbove(row, type, T)
            /\ (\A r \in MonthlyRows(row) : r[NumericColumn(type)] \in {-1, -2}) =>
                  \A T \in WARNING_THRESHOLDS : row[type].pop_warning_plus[T] = 0
            /\ \A r \in MonthlyRows(row) :
                  SingleUnitAtLevel(row, type, r) =>
                      \A T \in WARNING_THRESHOLDS :
                          /\ row[type].pop_warning_plus[T] =
                                (IF T <= r[NumericColumn(type)] THEN r.population ELSE 0)
                          /\ (T <= r[NumericColumn(type)] /\ r.population > 0) =>
                                row[type].pct_warning_plus[T].num =
                                    100 * row[type].pct_warning_plus[T].den
                          /\ (T <= r[NumericColumn(type)] /\ r.population = 0) =>
                                row[type].pct_warning_plus[T].num = 0

\* C15 witness: a month of Kenya with a unit of population 2 at crop level 2 and a
\* unit of population 1 at "Off season": 2 people are exposed at thresholds 1 and
\* 2, none at 3 and 4.
C15_Witness ==
    /\ ExpReturned
    /\ \E row \in ExpOut :
          /\ row.country = "Kenya"
          /\ \E r1, r2 \in MonthlyRows(row) :
                /\ r1.crop_warning_numeric = 2 /\ r1.population = 2
                /\ r2.crop_warning_numeric = -1 /\ r2.population = 1
          /\ row.crop.pop_warning_plus[1] = 2
          /\ row.crop.pop_warning_plus[2] = 2
          /\ row.crop.pop_warning_plus[3] = 0
          /\ row.total_population = 3

\* The admin-2 units that have a record, and a population, in the month of a row.
UnitsOf(row) ==
    {r.asap2_id : r \in {x \in warnings_raw :
        /\ x.asap0_name = row.country
        /\ YearMonth(x.date) = row.year_month
        /\ x.asap2_id \in DOMAIN population_data}}

\* The sum of the populations of a set of units.
RECURSIVE PopulationOf(_)
PopulationOf(U) ==
    IF U = {} THEN 0
    ELSE LET u == CHOOSE x \in U : TRUE
         IN  population_data[u] + PopulationOf(U \ {u})

\* C16: in every exposure row, total_population is the sum of the populations of
\* all the units of the country that have a record in the month, whatever their
\* level; each percentage is a fraction equal to 100 * threshold population /
\* total_population, and is 0 (with no division by zero) when the total is 0.
C16_TotalAndPercentage ==
    ExpReturned =>
        \A row \in ExpOut :
            /\ row.total_population = PopulationOf(UnitsOf(row))
            /\ \A type \in WarningTypes : \A T \in WARNING_THRESHOLDS :
                  LET pct == row[type].pct_warning_plus[T]
                  IN  /\ pct.den > 0
                      /\ row.total_population > 0 =>
                            pct.num * row.total_population =
                                100 * row[type].pop_warning_plus[T] * pct.den
                      /\ row.total_population = 0 => pct.num = 0

\* C16 witness: a month of Kenya in which unit 1 (population 2) is at crop level 4
\* and unit 2 (population 1) at "No crop/rangeland" for rangeland: the total is 3
\* and the crop percentage at threshold 4 is 200/3.
C16_Witness ==
    /\ ExpReturned
    /\ \E row \in ExpOut :
          /\ UnitsOf(row) = {1, 2}
          /\ population_data[1] = 2 /\ population_data[2] = 1
          /\ \E r \in MonthlyRows(row) : r.range_warning_numeric = -2
          /\ row.total_population = 3
          /\ row.crop.pop_warning_plus[4] = 2
          /\ row.crop.pct_warning_plus[4] = [num |-> 200, den |-> 3]

\* The latest-dated record of a unit in the month of a row.
LatestRecord(row, u) ==
    LET G == {x \in warnings_raw :
                 x.asap2_id = u /\ YearMonth(x.date) = row.year_month}
    IN  CHOOSE x \in G : \A y \in G : x.date >= y.date

\* The units of a row whose latest record of the month carries a level in T..4.
UnitsLatestAtOrAbove(row, type, T) ==
    {u \in UnitsOf(row) : WARNING_LEVEL_HIERARCHY(LatestRecord(row, u)[type]) \in T..4}

\* C17 as claimed: in every exposure row the level used for a unit is the one
\* carried by the unit's latest-dated record of the month, for crop and for
\* rangeland: every threshold sum is the population of the units whose latest
\* record is at or above the threshold, each unit counted once, and
\* total_population counts each unit once.
C17_LatestDekadDecides ==
    ExpReturned =>
        \A row \in ExpOut :
            /\ row.total_population = PopulationOf(UnitsOf(row))
            /\ \A type \in WarningTypes : \A T \in WARNING_THRESHOLDS :
                  row[type].pop_warning_plus[T] =
                      PopulationOf(UnitsLatestAtOrAbove(row, type, T))

\* The records of the frame read with a label that is no key of the hierarchy.
UnknownLabelRecords ==
    {r \in warnings_raw : \E type \in WarningTypes : WARNING_LEVEL_HIERARCHY(r[type]) = NA}

\* C18 as claimed: when a record has an unknown label, _process_warnings_data
\* fails with UnknownCategory, and no exposure table is ever computed with that
\* record in it.
C18_UnknownLabelRaises ==
    UnknownLabelRecords # {} =>
        /\ warnings_data # Pending => warnings_data[1].err = "UnknownCategory"
        /\ ~ExpReturned

\* The (country, year_month) pairs that occur in the warnings joined with the
\* population.
CountryMonths ==
    {<< r.asap0_name, YearMonth(r.date) >> :
        r \in {x \in warnings_raw : x.asap2_id \in DOMAIN population_data}}

\* The statistics of one type in a row are all there and none is null.
StatsComplete(st) ==
    /\ DOMAIN st.pop_warning_plus = WARNING_THRESHOLDS
    /\ DOMAIN st.pct_warning_plus = WARNING_THRESHOLDS
    /\ \A T \in WARNING_THRESHOLDS :
          st.pop_warning_plus[T] \in Nat /\ st.pct_warning_plus[T].num \in Nat
    /\ \A b \in DOMAIN st.pop_level : st.pop_level[b] \in Nat

\* C19: when some country-month occurs, calculate_monthly_exposure returns, and
\* the table returned has exactly one row for each (country, year_month) that
\* occurs and no other row; each row has the crop and the range statistics and
\* one total_population, and no statistic is null (a bucket that did not occur
\* in the month is 0).
C19_OneRowPerCountryMonth ==
    ExpDone =>
        /\ CountryMonths # {} => ExpReturned
        /\ ExpReturned =>
              /\ {<< row.country, row.year_month >> : row \in ExpOut} = CountryMonths
              /\ \A k \in CountryMonths :
                    Cardinality({row \in ExpOut :
                        << row.country, row.year_month >> = k}) = 1
              /\ \A row \in ExpOut :
                    /\ row.total_population \in Nat
                    /\ StatsComplete(row.crop)
                    /\ StatsComplete(row.range)

\* C19 witness: a table of two rows, Kenya 2024-01 and Uganda 2024-02, in which the
\* bucket of crop "Warning group 4", which occurs only in Uganda, is 0 for Kenya.
C19_Witness ==
    /\ ExpReturned
    /\ Cardinality(ExpOut) = 2
    /\ \E k, u \in ExpOut :
          /\ k.country = "Kenya" /\ k.year_month = "2024-01"
          /\ u.country = "Uganda" /\ u.year_month = "2024-02"
          /\ "warning_group_4" \in DOMAIN u.crop.pop_level
          /\ u.crop.pop_level["warning_group_4"] = 1
          /\ k.crop.pop_level["warning_group_4"] = 0
          /\ k.range.pop_warning_plus[1] > 0

\* Fraction p is at most fraction q (both denominators are positive).
FracLeq(p, q) == p.num * q.den <= q.num * p.den

\* C29: in every exposure row and for each warning type, the threshold populations
\* fall from threshold 1 to threshold 4 and none exceeds total_population; every
\* percentage lies in [0, 100] and the percentages do not rise with the threshold.
C29_ThresholdsNested ==
    ExpReturned =>
        \A row \in ExpOut : \A type \in WarningTypes :
            LET pop == row[type].pop_warning_plus
                pct == row[type].pct_warning_plus
            IN  /\ pop[1] <= row.total_population
                /\ \A T \in WARNING_THRESHOLDS :
                      /\ pop[T] >= 0
                      /\ pct[T].den > 0
                      /\ 0 <= pct[T].num /\ pct[T].num <= 100 * pct[T].den
                      /\ (T + 1) \in WARNING_THRESHOLDS =>
                            /\ pop[T + 1] <= pop[T]
                            /\ FracLeq(pct[T + 1], pct[T])

\* C29 witness: a row whose crop population at threshold 1 is below the total (a
\* unit is off season) and whose rangeland populations fall strictly between
\* thresholds 1 and 4.
C29_Witness ==
    /\ ExpReturned
    /\ \E row \in ExpOut :
          /\ row.total_population > 0
          /\ row.crop.pop_warning_plus[1] > 0
          /\ row.crop.pop_warning_plus[1] < row.total_population
          /\ row.range.pop_warning_plus[1] = row.total_population
          /\ row.range.pop_warning_plus[4] < row.range.pop_warning_plus[3]
          /\ row.range.pop_warning_plus[3] < row.range.pop_warning_plus[1]

(***************************************************************************)
(* Phase consolidation: src/src/datasources/ipc.py, _combine_4_plus.  The  *)
(* frame read has at most one row per (period, location, type, phase); the *)
(* frame returned is a bag of rows, since pd.concat keeps equal rows.      *)
(***************************************************************************)

\* Rows of the frame read.
MaxPhaseRows == 3

\* (From/To/year, location_code, ipc_type) of the groups of the frame read.
PhaseGroups == {<< 1, "KEN", "current" >>, << 1, "UGA", "first projection" >>}

\* ipc_phase of the rows of the frame read.
PhaseLabels == {"3+", "4", "5", "4+"}

\* population_in_phase, and population_fraction_in_phase in per-mille.
PhasePopulations == {1, 2}

PhaseFractions == {10, 20}

PhaseRow(g, phase, population, fraction) ==
    [period |-> g[1], location_code |-> g[2], ipc_type |-> g[3], ipc_phase |-> phase,
     population_in_phase |-> population, population_fraction_in_phase |-> fraction]

\* The frames read: up to MaxPhaseRows rows.
PhaseFrames ==
    UNION {{{PhaseRow(sl[1], sl[2], f[sl][1], f[sl][2]) : sl \in S} :
                f \in [S -> PhasePopulations \X PhaseFractions]} :
           S \in {T \in SUBSET (PhaseGroups \X PhaseLabels) :
                     Cardinality(T) <= MaxPhaseRows}}

\* df["ipc_phase"].map({"4": "4+", "5": "4+"}).fillna(_df["ipc_phase"])
MappedPhase(phase) == IF phase \in {"4", "5"} THEN "4+" ELSE phase

\* The sum of a column over a set of rows.
RECURSIVE SumColumn(_, _)
SumColumn(G, col) ==
    IF G = {} THEN 0
    ELSE LET r == CHOOSE x \in G : TRUE
         IN  r[col] + SumColumn(G \ {r}, col)

\* dff: the rows whose mapped phase is "4+", summed per
\* (From, To, location_code, ipc_type, year, ipc_phase).
FourPlusRows(df) ==
    LET sel == {r \in df : MappedPhase(r.ipc_phase) = "4+"}
        Group(g) == {r \in sel : << r.period, r.location_code, r.ipc_type >> = g}
    IN  {PhaseRow(g, "4+", SumColumn(Group(g), "population_in_phase"),
                  SumColumn(Group(g), "population_fraction_in_phase")) :
            g \in {<< r.period, r.location_code, r.ipc_type >> : r \in sel}}

\* pd.concat([df, dff])
combine_4_plus(df) == SetToBag(df) (+) SetToBag(FourPlusRows(df))

InitPhase ==
    /\ ipc_raw \in PhaseFrames
    /\ ipc_combined = Pending
    /\ HsIdle /\ RowIdle /\ WideIdle /\ LatestIdle /\ MergeIdle /\ RunIdle /\ ExpIdle /\ CurIdle /\ CallIdle /\ AlertIdle

\* _combine_4_plus returns.
CombineFourPlus ==
    /\ ipc_combined = Pending
    /\ ipc_combined' = << combine_4_plus(ipc_raw) >>
    /\ UNCHANGED ipc_raw
    /\ UNCHANGED << hsVars, rowVars, wideVars, latestVars, mergeVars, runVars, expVars, curVars, callVars, alertVars >>

NextPhase == CombineFourPlus

SpecPhase == InitPhase /\ [][NextPhase]_vars

PhaseDone == ipc_combined # Pending

\* The frame returned.
PhaseOut == ipc_combined[1]

\* The rows of the frame read, of a group and a phase.
InputRows(g, phase) ==
    {r \in ipc_raw :
        << r.period, r.location_code, r.ipc_type >> = g /\ r.ipc_phase = phase}

\* The number of "4+" rows of a group in the frame returned.
FourPlusCount(g) ==
    LET S == {r \in BagToSet(PhaseOut) :
                 << r.period, r.location_code, r.ipc_type >> = g /\ r.ipc_phase = "4+"}
        RECURSIVE Count(_)
        Count(T) == IF T = {} THEN 0
                    ELSE LET r == CHOOSE x \in T : TRUE
                         IN  CopiesIn(r, PhaseOut) + Count(T \ {r})
    IN  Count(S)

\* C20 as claimed, for the groups that have a phase "4" and a phase "5" row:
\* the frame returned has exactly one "4+" row for the group, with the sums of
\* the two rows, and every row of the frame read is still there.
C20_OneFourPlusRowPerGroup ==
    PhaseDone =>
        /\ \A r \in ipc_raw : BagIn(r, PhaseOut)
        /\ \A g \in PhaseGroups :
              (InputRows(g, "4") # {} /\ InputRows(g, "5") # {}) =>
                  /\ FourPlusCount(g) = 1
                  /\ BagIn(PhaseRow(g, "4+",
                        SumColumn(InputRows(g, "4") \cup InputRows(g, "5"),
                                  "population_in_phase"),
                        SumColumn(InputRows(g, "4") \cup InputRows(g, "5"),
                                  "population_fraction_in_phase")), PhaseOut)

(***************************************************************************)
(* Current status: src/monitor_asap.py (df_hs_latest) and                  *)
(* src/src/asap/alert_system.py, ASAPAlertSystem.get_current_alerts        *)
(***************************************************************************)

\* Most dates (months) a frame of classified records spans.
MaxDates == 3

CurCountries == {"Kenya", "Uganda"}

CurLevels == {"low", "high"}

\* The classified records of one country: at most one per date.
CountryHistories(c) ==
    UNION { { {[country |-> c, date |-> d, alert_level |-> f[d]] : d \in D} :
                f \in [D -> CurLevels] } : D \in SUBSET (1..MaxDates) }

\* The frames of classified records: the histories of the countries together.
AlertFrames ==
    { k \cup u : k \in CountryHistories("Kenya"), u \in CountryHistories("Uganda") }

\* reference_date of get_current_alerts: a month, or 0 for None.
ReferenceDates == 0..MaxDates

\* df.date.max()
LatestDate(df) == CHOOSE d \in {r.date : r \in df} : \A r \in df : r.date <= d

\* df[df.date == df.date.max()]: the records of the latest date of the whole
\* frame.  An empty frame has no maximum and the comparison selects nothing.
RecordsOfLatestDate(df) ==
    IF df = {} THEN {} ELSE {r \in df : r.date = LatestDate(df)}

\* ASAPAlertSystem.get_current_alerts, before the sort by country.
get_current_alerts(df, reference_date) ==
    IF reference_date # 0
    THEN {r \in df : r.date = reference_date}
    ELSE RecordsOfLatestDate(df)

InitCur ==
    /\ alerts_data \in AlertFrames
    /\ current_alerts = Pending
    /\ HsIdle /\ RowIdle /\ WideIdle /\ LatestIdle /\ MergeIdle /\ RunIdle /\ ExpIdle /\ PhaseIdle /\ CallIdle /\ AlertIdle

\* monitor_asap.py: df_hs_latest.
MonitorAsapLatest ==
    /\ current_alerts = Pending
    /\ current_alerts' = << [by |-> "monitor_asap", reference_date |-> 0,
                            rows |-> RecordsOfLatestDate(alerts_data)] >>
    /\ UNCHANGED << alerts_data, hsVars, rowVars, wideVars, latestVars, mergeVars, runVars, expVars, phaseVars, callVars, alertVars >>

\* ASAPAlertSystem.get_current_alerts(reference_date).
GetCurrentAlerts ==
    /\ current_alerts = Pending
    /\ \E reference_date \in ReferenceDates :
          current_alerts' = << [by |-> "get_current_alerts",
                                reference_date |-> reference_date,
                                rows |-> get_current_alerts(alerts_data, reference_date)] >>
    /\ UNCHANGED << alerts_data, hsVars, rowVars, wideVars, latestVars, mergeVars, runVars, expVars, phaseVars, callVars, alertVars >>

NextCur == MonitorAsapLatest \/ GetCurrentAlerts

SpecCur == InitCur /\ [][NextCur]_vars

\* The current status has been selected (no reference date given).
CurDone == current_alerts # Pending /\ current_alerts[1].reference_date = 0

CurOut == current_alerts[1].rows

\* C25: the current status keeps, for every country with a classified record,
\* exactly one record, that country's most recent one, also when the most recent
\* dates of the countries differ.
C25_OneLatestRecordPerCountry ==
    CurDone =>
        \A c \in {r.country : r \in alerts_data} :
            LET own == {r \in alerts_data : r.country = c}
            IN  {r \in CurOut : r.country = c} = RecordsOfLatestDate(own)

(***************************************************************************)
(* Repeated calls of merge_ipc_hotspots on the same frames: src/src/utils.py *)
(***************************************************************************)

\* Most calls made on one pair of frames.
MaxCalls == 2

\* merge_ipc_hotspots(df_ipc, df_hs): the table returned, or the exception.  The
\* function reads its two arguments and nothing else (alert_map and reverse_map
\* are locals).
merge_ipc_hotspots(ipc, hs) ==
    IF RowCountAssertion(MergedRows(hs, ipc), hs, ipc)
    THEN [err |-> "none", df |-> MergedRows(hs, ipc)]
    ELSE [err |-> "AssertionError", df |-> << >>]

\* Mutant: max_alert_level is written into the alert_level column of df_hs itself.
ArgumentsAfterCallInPlace(ipc, hs) ==
    << ipc,
       [c \in DOMAIN hs |-> MergedRows(hs, ipc)[c].max_alert_level] >>

\* The two arguments as the call leaves them: DataFrame.merge builds a new frame,
\* max_alert_level is assigned to that frame, and the selection and the rename
\* make copies, so neither df_ipc nor df_hs is written.
ArgumentsAfterCall(ipc, hs) == << ipc, hs >>

InitCall ==
    /\ df_hs \in HsTables
    /\ df_ipc \in IpcTables
    /\ df_merged = Pending
    /\ merge_results = << >>
    /\ HsIdle /\ RowIdle /\ WideIdle /\ LatestIdle /\ RunIdle /\ ExpIdle /\ PhaseIdle /\ CurIdle /\ AlertIdle

\* One more call merge_ipc_hotspots(df_ipc, df_hs).
CallMerge ==
    /\ Len(merge_results) < MaxCalls
    /\ merge_results' = Append(merge_results, merge_ipc_hotspots(df_ipc, df_hs))
    /\ df_ipc' = ArgumentsAfterCall(df_ipc, df_hs)[1]
    /\ df_hs' = ArgumentsAfterCall(df_ipc, df_hs)[2]
    /\ UNCHANGED << df_merged, hsVars, rowVars, wideVars, latestVars, runVars, expVars, phaseVars, curVars, alertVars >>

NextCall == CallMerge

SpecCall == InitCall /\ [][NextCall]_vars

AlertLevel == << "NO_WARNING", "LIGHT_WARNING", "MODERATE_WARNING", "SEVERE_WARNING" >>

\* AlertLevel.value
AlertValue(level) == (CHOOSE k \in 1..Len(AlertLevel) : AlertLevel[k] = level) - 1

\* AlertThresholdConfig.crop_thresholds
crop_thresholds ==
    [NO_WARNING |-> 0, LIGHT_WARNING |-> 190,
     MODERATE_WARNING |-> 350, SEVERE_WARNING |-> 660]

\* AlertThresholdConfig.range_thresholds
range_thresholds ==
    [NO_WARNING |-> 0, LIGHT_WARNING |-> 230,
     MODERATE_WARNING |-> 420, SEVERE_WARNING |-> 760]

\* ASAPAlertSystem.get_thresholds with use_conservative False.
get_thresholds(warning_type) ==
    IF warning_type = "crop" THEN crop_thresholds ELSE range_thresholds

\* ASAPAlertSystem.calculate_alert_level; a comparison with NaN is False.
calculate_alert_level(exposure_pct, warning_type) ==
    LET thresholds == get_thresholds(warning_type)
    IN  IF FloatGe(exposure_pct, thresholds.SEVERE_WARNING) = "T"
        THEN "SEVERE_WARNING"
        ELSE IF FloatGe(exposure_pct, thresholds.MODERATE_WARNING) = "T"
        THEN "MODERATE_WARNING"
        ELSE IF FloatGe(exposure_pct, thresholds.LIGHT_WARNING) = "T"
        THEN "LIGHT_WARNING"
        ELSE "NO_WARNING"

\* max(crop_alert, range_alert, key=lambda x: x.value): the first of the greatest.
MaxByValue(a, b) == IF AlertValue(b) > AlertValue(a) THEN b ELSE a

\* ASAPAlertSystem.calculate_combined_alert_level
calculate_combined_alert_level(crop_pct, range_pct) ==
    MaxByValue(calculate_alert_level(crop_pct, "crop"),
               calculate_alert_level(range_pct, "range"))

\* The thresholds written out in calculate_simple_percentile_alert.
SimplePercentileThresholds(warning_type) ==
    IF warning_type = "crop"
    THEN [NO_WARNING |-> 0, LIGHT_WARNING |-> 190,
          MODERATE_WARNING |-> 350, SEVERE_WARNING |-> 660]
    ELSE [NO_WARNING |-> 0, LIGHT_WARNING |-> 230,
          MODERATE_WARNING |-> 420, SEVERE_WARNING |-> 760]

\* for level in reversed(list(AlertLevel)): if exposure_pct >= thresholds[level]:
\* return level -- from position k down; return NO_WARNING after the loop.
RECURSIVE FirstLevelReached(_, _, _)
FirstLevelReached(exposure_pct, thresholds, k) ==
    IF k = 0 THEN "NO_WARNING"
    ELSE IF FloatGe(exposure_pct, thresholds[AlertLevel[k]]) = "T" THEN AlertLevel[k]
    ELSE FirstLevelReached(exposure_pct, thresholds, k - 1)

\* Mutant: a value exactly on a threshold stays at the lower level.
SimplePercentileAlertStrict(exposure_pct, warning_type) ==
    FirstLevelReached(IF exposure_pct = NA THEN NA ELSE exposure_pct - 1,
                      SimplePercentileThresholds(warning_type), Len(AlertLevel))

\* EnhancedAlertSystem.calculate_simple_percentile_alert
calculate_simple_percentile_alert(exposure_pct, warning_type) ==
    FirstLevelReached(exposure_pct, SimplePercentileThresholds(warning_type),
                      Len(AlertLevel))

\* The exposure percentages drawn: NaN, a negative value, 0, 100, and the values
\* just below, on and just above every threshold of either type.
ExposureValues ==
    {NA, -1, 0, 1000} \cup
    UNION {{t - 1, t, t + 1} : t \in {190, 230, 350, 420, 660, 760}}

AlertWarningTypes == {"crop", "range"}

InitAlert ==
    /\ crop_exposure_pct \in ExposureValues
    /\ range_exposure_pct \in ExposureValues
    /\ alert_results = << >>
    /\ HsIdle /\ RowIdle /\ WideIdle /\ LatestIdle /\ MergeIdle /\ RunIdle /\ ExpIdle /\ PhaseIdle /\ CurIdle /\ CallIdle

\* The exposure of a warning type in the row.
ExposureOf(warning_type) ==
    IF warning_type = "crop" THEN crop_exposure_pct ELSE range_exposure_pct

\* A calculation that has not been made yet returns, and its result is kept.
Returns(method, result) ==
    /\ Len(alert_results) < 3
    /\ \A i \in DOMAIN alert_results : alert_results[i].method # method
    /\ alert_results' = Append(alert_results, [method |-> method, level |-> result])
    /\ UNCHANGED << crop_exposure_pct, range_exposure_pct, hsVars, rowVars, wideVars, latestVars, mergeVars, runVars, expVars, phaseVars, curVars, callVars >>

\* ASAPAlertSystem.calculate_alert_level, for each warning type.
CalculateAlertLevel ==
    Returns("standard",
            [t \in AlertWarningTypes |-> calculate_alert_level(ExposureOf(t), t)])

\* EnhancedAlertSystem.calculate_simple_percentile_alert, for each warning type.
CalculateSimplePercentileAlert ==
    Returns("simple_percentile",
            [t \in AlertWarningTypes |->
                calculate_simple_percentile_alert(ExposureOf(t), t)])

\* ASAPAlertSystem.calculate_combined_alert_level
CalculateCombinedAlertLevel ==
    Returns("combined",
            calculate_combined_alert_level(crop_exposure_pct, range_exposure_pct))

NextAlert ==
    CalculateAlertLevel \/ CalculateSimplePercentileAlert \/ CalculateCombinedAlertLevel

SpecAlert == InitAlert /\ [][NextAlert]_vars

\* The results of the calculations made so far, by method.
AlertMethods == {alert_results[i].method : i \in DOMAIN alert_results}

LevelBy(method) ==
    alert_results[CHOOSE i \in DOMAIN alert_results :
                      alert_results[i].method = method].level

\* The levels of a type whose threshold the exposure x reaches.
LevelsReached(x, warning_type) ==
    {l \in {AlertLevel[k] : k \in 1..Len(AlertLevel)} :
        x # NA /\ get_thresholds(warning_type)[l] <= x}

\* The highest level of a non-empty set of levels.
HighestLevel(S) == CHOOSE l \in S : \A m \in S : AlertValue(m) <= AlertValue(l)

\* C30: for every exposure and warning type the simple percentile alert is the
\* level calculate_alert_level returns with the standard thresholds: the highest
\* level whose threshold is at most the exposure (a value on a threshold has the
\* higher level), never lower for a greater exposure; the combined level is the
\* higher of the crop and the range level.
C30_SimplePercentileIsStandard ==
    /\ {"standard", "simple_percentile"} \subseteq AlertMethods =>
          \A t \in AlertWarningTypes :
              LevelBy("simple_percentile")[t] = LevelBy("standard")[t]
    /\ "standard" \in AlertMethods =>
          \A t \in AlertWarningTypes :
              LET x == ExposureOf(t)
                  level == LevelBy("standard")[t]
              IN  /\ LevelsReached(x, t) # {} => level = HighestLevel(LevelsReached(x, t))
                  /\ LevelsReached(x, t) = {} => level = "NO_WARNING"
                  /\ \A y \in ExposureValues \ {NA} :
                        (x # NA /\ x <= y) =>
                            AlertValue(level) <= AlertValue(calculate_alert_level(y, t))
    /\ {"standard", "combined"} \subseteq AlertMethods =>
          /\ LevelBy("combined") \in {LevelBy("standard")[t] : t \in AlertWarningTypes}
          /\ \A t \in AlertWarningTypes :
                AlertValue(LevelBy("standard")[t]) <= AlertValue(LevelBy("combined"))

\* C30 witness: a crop exposure of exactly 19.0 is a light warning by both methods
\* and the rangeland exposure of 76.1 makes the combined level severe.
C30_Witness ==
    /\ AlertMethods = {"standard", "simple_percentile", "combined"}
    /\ crop_exposure_pct = 190 /\ range_exposure_pct = 761
    /\ LevelBy("standard")["crop"] = "LIGHT_WARNING"
    /\ LevelBy("simple_percentile")["crop"] = "LIGHT_WARNING"
    /\ LevelBy("standard")["range"] = "SEVERE_WARNING"
    /\ LevelBy("combined") = "SEVERE_WARNING"

====
